---- MODULE Spec2Model ----
(***************************************************************************)
(* Round / item store shared by several client screens, each holding a     *)
(* cached copy of the current round (rodadaAtual) and of item lists.       *)
(* Time is in whole seconds; the code's millisecond arithmetic is kept in  *)
(* calcularTempoRestante.                                                  *)
(***************************************************************************)
EXTENDS Integers, Sequences, FiniteSets, TLC

\* ---------------------------------------------------------------- bounds
MaxAgora == 90           \* the clock stops advancing here
Passo == 30              \* seconds between two observed instants
MaxIniciais == 3         \* items already in the store initially
MaxPizzas == 3           \* the store holds at most this many items
MaxTempoLimite == 360    \* extend is not issued beyond this tempo_limite (either sign)
MaxSomaMinutos == 6      \* nor once the extends applied sum to this many minutes (either sign)
TempoLimiteCurto == 60   \* tempo_limite of the round the team screens play
LimitePizzasRodada == 2  \* numeroPizzasPlanejadas of the round's configuration
NumeroPizzas == 2        \* the control screen's numeroPizzas input
MaxRespostas == 1        \* answers of fetches on their way to one evaluator at a time
MaxPendentes == 2        \* items waiting for the evaluator initially
MaxCanais == 4           \* channels one mounted hook creates
MaxFalhas == 1           \* store errors answered to the rejector
MaxNaFila == 1           \* items waiting when the evaluator's screen mounts

\* ------------------------------------------------------ program constants
TEMPO_ADICIONAL_SEGUNDOS == 60
TempoLimitePadrao == 300
WarningThreshold == 30

\* ------------------------------------------------------------- vocabulary
NULO == "null"           \* SQL NULL / JS null in a text column
INDEFINIDO == "undefined"
REMOVIDA == "removida"    \* the row has been deleted from its table
SEM_DATA == -1           \* NULL in a timestamp column
SEM_TEMPO == -1          \* calcularTempoRestante returning null
SEM_SABOR == -1          \* undefined: an index past the end of the flavor sequence

Rodadas == {1, 2}
RodadaAnterior == 1
Timeouts == {"x1", "x2", "x3"}      \* screens mounting useAvaliacaoTimeout
Avaliadores == {"v1"}               \* screens mounting usePizzasParaAvaliacao
Telas == {"t1", "t2"}               \* FilaProducao screens of one team
Admins == {"a1", "a2"}              \* ProducaoScreen instances
Temporizados == Timeouts \cup Avaliadores \cup Telas
Clientes == Timeouts \cup Avaliadores \cup Telas \cup Admins
EquipeDaTela == "equipeA"
Sabores == {"mussarela"}
Deltas == {-5, -1, 1, 5}
TemposLimite == {TempoLimiteCurto, TempoLimitePadrao}   \* values typed into the tempoLimite input

JUSTIFICATIVA_TIMEOUT == "Tempo de avaliacao esgotado - reprovacao automatica"
SISTEMA_TIMEOUT == "Sistema - Timeout"
AVALIADOR == "Avaliador"

OK == "ok"
Ult(op, c, alvo, res) == [op |-> op, c |-> c, alvo |-> alvo, res |-> res]

SemEnvio == [rodadaId |-> 0, sabor |-> ""]

SemInicio == [fase |-> "", rodadaId |-> 0]
NadaLido == <<0>>        \* no fetch has read the store yet
Canais == 1..MaxCanais   \* one per run of the subscription effect (unique channel name)
SemCanal == 0
Equipes == {"", "equipeA", "equipeB"}   \* '' subscribes to the items of every team

NuloRodada ==
  [id |-> 0, status |-> "nenhuma", tempo_limite |-> 0,
   iniciou_em |-> SEM_DATA, finalizou_em |-> SEM_DATA]

\* no remaining-time computation has been made yet
SemCalculo == [por |-> "", anchor |-> 0, limite |-> 0, agoraMs |-> 0, valor |-> 0]

Consumidores == Telas \cup Admins   \* components calling useSynchronizedTimer
Limiares == {WarningThreshold}
TimerInicial == [estado |-> "idle", rodada |-> NuloRodada, avisados |-> {}, esgotadas |-> {}]

VARIABLES
  agora,                        \* wall clock, seconds
  rodadas,                      \* store: table rodadas, by id
  pizzas,                       \* store: table pizzas, in created_at order
  criadaCom,                    \* history: store status of the round when item i was inserted
  nAuto,                        \* history: how many bulk updates matched item i
  rodadaAtual,                  \* per client: cached round (useOptimizedRodadas)
  tempoAdicionalProcessadoRef,  \* per timeout client: round ids already processed
  intervalRef,                  \* per timeout client: armed interval's captured round, or NuloRodada
  chamadas,                     \* invocations of reprovarPizzasNaoAvaliadas
  invocacoes,                   \* history: per timeout client and round id, how many times it invoked it
  estaNoTempoAdicional,         \* per timeout client: the hook's estaNoTempoAdicional
  pizzasAvaliacao,              \* per evaluator: cached list of item ids
  pizzasEquipe,                 \* per team screen: cached ids of the team's items in the round
  saborSelecionado,             \* per team screen
  envio,                        \* per team screen: submission in flight
  eventos,                      \* window events dispatched and parent callbacks made so far
  somaMinutos,                  \* history: sum of the minutes of the extends applied to the store
  historico,                    \* store: table historico_sabores_rodada, per round the ordinals in insertion order
  pausouEm,                     \* store: per round the instant of the pause in force, or SEM_DATA
  inicio,                       \* per control screen: handleIniciarRodada suspended at an await
  finalizadores,                \* history: per round the clients whose finish request was answered
  leituras,                     \* realtime handlers of the evaluators suspended on their per-item select
  respostas,                    \* answers of fetchPizzasParaAvaliacao on their way to the evaluators
  entregues,                    \* history: per evaluator the change notifications its handler received
  ultimaLida,                   \* history: per evaluator what its latest fetch read from the store
  equipeId,                     \* usePizzasParaAvaliacao(equipeId): the argument of the latest render
  channelRef,                   \* its channelRef.current: a channel, or SemCanal
  isSubscribedRef,              \* its isSubscribedRef.current
  canais,                       \* the realtime client: state of every channel the hook created
  fechando,                     \* removed channels whose CLOSED status has not been delivered yet
  armados,                      \* the runtime: per timer-owning instance the intervals armed, by captured round
  desmontado,                   \* hook and component instances that have unmounted
  tempoRestante,                \* per countdown owner: the displayed seconds, or SEM_TEMPO
  erro,                         \* per evaluator: the hook's error field
  calc,                         \* the latest remaining-time computation: its inputs and its result
  timer,                        \* per consumer of useSynchronizedTimer: its state
  notificadas,                  \* history: callbacks the synchronized timer made, per consumer
  ult                           \* last handler that ran

vars == <<agora, rodadas, pizzas, criadaCom, nAuto, rodadaAtual,
          tempoAdicionalProcessadoRef, intervalRef, chamadas, pizzasAvaliacao,
          pizzasEquipe, saborSelecionado, envio, eventos, somaMinutos,
          historico, pausouEm, inicio, finalizadores,
          leituras, respostas, entregues, ultimaLida,
          equipeId, channelRef, isSubscribedRef, canais, fechando,
          armados, desmontado, tempoRestante, erro, calc, timer, notificadas,
          invocacoes, estaNoTempoAdicional, ult>>

storeVars == <<rodadas, pizzas, criadaCom, nAuto>>
timeoutVars == <<tempoAdicionalProcessadoRef, intervalRef, chamadas, armados, invocacoes>>
telaVars == <<pizzasEquipe, saborSelecionado, envio, eventos>>
adminVars == <<somaMinutos>>
cicloVars == <<historico, pausouEm, inicio, finalizadores>>
feedVars == <<leituras, respostas, entregues, ultimaLida>>
canalVars == <<equipeId, channelRef, isSubscribedRef, canais, fechando>>
montagemVars == <<desmontado, tempoRestante, erro, estaNoTempoAdicional>>
relogioVars == <<calc>>
timerVars == <<timer, notificadas>>

\* ------------------------------------------------------------ store reads
Ids == 1..Len(pizzas)

\* .eq('rodada_id', rodadaId).eq('status','pronta').is('resultado', null)
Pendente(p, rodadaId) ==
  /\ p.rodada_id = rodadaId
  /\ p.status = "pronta"
  /\ p.resultado = NULO

PendentesDe(ps, rodadaId) == {i \in 1..Len(ps) : Pendente(ps[i], rodadaId)}

\* the round useOptimizedRodadas serves to its consumers: the newest one
RodadaVigente ==
  CHOOSE r \in Rodadas :
    /\ rodadas[r].status # "nenhuma"
    /\ \A q \in Rodadas : rodadas[q].status # "nenhuma" => q <= r

\* ------------------------------------------------------- useAvaliacaoTimeout
\* variant: the grace period is not added to the round's end
calcularTempoRestante_SemJanela(rodada, t) ==
  IF rodada = NuloRodada \/ rodada.status # "finalizada" \/ rodada.finalizou_em = SEM_DATA
  THEN SEM_TEMPO
  ELSE LET tempoRestanteMs == rodada.finalizou_em * 1000 - t * 1000
       IN IF tempoRestanteMs <= 0 THEN 0
          ELSE (tempoRestanteMs + 999) \div 1000

calcularTempoRestante(rodada, t) ==
  IF rodada = NuloRodada \/ rodada.status # "finalizada" \/ rodada.finalizou_em = SEM_DATA
  THEN SEM_TEMPO
  ELSE LET agoraMs == t * 1000
           fimRodada == rodada.finalizou_em * 1000
           fimTempoAdicional == fimRodada + (TEMPO_ADICIONAL_SEGUNDOS * 1000)
           tempoRestanteMs == fimTempoAdicional - agoraMs
       IN IF tempoRestanteMs <= 0 THEN 0
          ELSE (tempoRestanteMs + 999) \div 1000

\* variant: the bulk update does not set the status
Reprovada_SemStatus(p) ==
  [p EXCEPT !.resultado = "reprovada",
            !.justificativa_reprovacao = JUSTIFICATIVA_TIMEOUT,
            !.avaliado_por = SISTEMA_TIMEOUT]

\* the bulk update's new row
Reprovada(p) ==
  [p EXCEPT !.status = "avaliada",
            !.resultado = "reprovada",
            !.justificativa_reprovacao = JUSTIFICATIVA_TIMEOUT,
            !.avaliado_por = SISTEMA_TIMEOUT]

\* variant: the update filters on the round only
AlvoDaReprovacao_SoRodada(p, rodadaId) == p.rodada_id = rodadaId

\* variant: the update does not filter on the round
AlvoDaReprovacao_SemRodada(p, rodadaId) == p.status = "pronta" /\ p.resultado = NULO

\* rows the bulk update of reprovarPizzasNaoAvaliadas matches
AlvoDaReprovacao(p, rodadaId) == Pendente(p, rodadaId)

ReprovarUpdate(ps, rodadaId) ==
  [i \in 1..Len(ps) |->
     IF AlvoDaReprovacao(ps[i], rodadaId) THEN Reprovada(ps[i]) ELSE ps[i]]

Chamada(c, r, fase, n, mudou) ==
  [c |-> c, rodadaId |-> r, fase |-> fase, pendentes |-> n, alteradas |-> mudou]

\* reprovarPizzasNaoAvaliadas(rodadaId) up to its first await: the select is issued
IniciarReprovacao(c, rodadaId) == chamadas \cup {Chamada(c, rodadaId, "select", 0, 0)}

\* variant: no round counts as processed
JaProcessada_Nunca(c, rodadaId) == FALSE

\* tempoAdicionalProcessadoRef.current.has(rodadaId)
JaProcessada(c, rodadaId) == rodadaId \in tempoAdicionalProcessadoRef[c]

\* one more call of reprovarPizzasNaoAvaliadas(rodadaId) by client c
Invocada(c, rodadaId) == [invocacoes EXCEPT ![c][rodadaId] = @ + 1]

\* variant: the runtime keeps the interval armed
clearInterval_Nada(arm, ref) == arm

\* clearInterval(ref): the runtime disarms that interval; null, or an interval
\* already cleared, is ignored
clearInterval(arm, ref) == arm \ {ref}

\* the body of the main effect, run for client c with round value v after the
\* teardown of its previous run
EfeitoTimeout(c, v) ==
  LET limpo == clearInterval(armados[c], intervalRef[c]) IN
  IF v = NuloRodada \/ v.status # "finalizada"
  THEN /\ intervalRef' = [intervalRef EXCEPT ![c] = NuloRodada]
       /\ armados' = [armados EXCEPT ![c] = limpo]
       /\ tempoRestante' = [tempoRestante EXCEPT ![c] = SEM_TEMPO]
       /\ estaNoTempoAdicional' = [estaNoTempoAdicional EXCEPT ![c] = FALSE]
       /\ UNCHANGED <<tempoAdicionalProcessadoRef, invocacoes, chamadas>>
  ELSE IF JaProcessada(c, v.id)
  THEN /\ intervalRef' = [intervalRef EXCEPT ![c] = NuloRodada]
       /\ armados' = [armados EXCEPT ![c] = limpo]
       /\ tempoRestante' = [tempoRestante EXCEPT ![c] = 0]
       /\ estaNoTempoAdicional' = [estaNoTempoAdicional EXCEPT ![c] = FALSE]
       /\ UNCHANGED <<tempoAdicionalProcessadoRef, invocacoes, chamadas>>
  ELSE LET tempoInicial == calcularTempoRestante(v, agora) IN
       IF tempoInicial = SEM_TEMPO
       THEN /\ intervalRef' = [intervalRef EXCEPT ![c] = NuloRodada]
            /\ armados' = [armados EXCEPT ![c] = limpo]
            /\ estaNoTempoAdicional' = [estaNoTempoAdicional EXCEPT ![c] = TRUE]
            /\ UNCHANGED <<tempoRestante, tempoAdicionalProcessadoRef, invocacoes, chamadas>>
       ELSE IF tempoInicial <= 0
       THEN /\ chamadas' = IniciarReprovacao(c, v.id)
            /\ invocacoes' = Invocada(c, v.id)
            /\ tempoAdicionalProcessadoRef' =
                 [tempoAdicionalProcessadoRef EXCEPT ![c] = @ \cup {v.id}]
            /\ intervalRef' = [intervalRef EXCEPT ![c] = NuloRodada]
            /\ armados' = [armados EXCEPT ![c] = limpo]
            /\ tempoRestante' = [tempoRestante EXCEPT ![c] = 0]
            /\ estaNoTempoAdicional' = [estaNoTempoAdicional EXCEPT ![c] = FALSE]
       ELSE /\ intervalRef' = [intervalRef EXCEPT ![c] = v]
            /\ armados' = [armados EXCEPT ![c] = limpo \cup {v}]
            /\ tempoRestante' = [tempoRestante EXCEPT ![c] = tempoInicial]
            /\ estaNoTempoAdicional' = [estaNoTempoAdicional EXCEPT ![c] = TRUE]
            /\ UNCHANGED <<tempoAdicionalProcessadoRef, invocacoes, chamadas>>

\* what the hook returns besides the constant
telaTimeoutVars == <<tempoRestante, estaNoTempoAdicional>>

DepsTimeout(v) == <<v.id, v.status, v.finalizou_em>>

\* the cached round of a timeout client is refreshed; the effect re-runs when
\* one of its dependencies changed
SincronizarTimeout(c) ==
  /\ c \in Timeouts
  /\ c \notin desmontado
  /\ LET v == rodadas[RodadaVigente] IN
     /\ rodadaAtual' = [rodadaAtual EXCEPT ![c] = v]
     /\ IF DepsTimeout(v) # DepsTimeout(rodadaAtual[c])
        THEN EfeitoTimeout(c, v)
        ELSE UNCHANGED <<timeoutVars, telaTimeoutVars>>
  /\ ult' = Ult("sincronizarTimeout", c, 0, OK)
  /\ UNCHANGED <<adminVars, desmontado, erro, relogioVars, timerVars, canalVars, feedVars, cicloVars, agora, storeVars, pizzasAvaliacao, telaVars>>

\* the setInterval callback of an armed interval, with the round its closure holds
TiqueTimeout(c) ==
  /\ c \in Timeouts
  /\ \E iv \in armados[c] :
       LET novoTempo == calcularTempoRestante(iv, agora) IN
       IF novoTempo = SEM_TEMPO \/ novoTempo <= 0
       THEN /\ chamadas' = IniciarReprovacao(c, iv.id)
            /\ invocacoes' = Invocada(c, iv.id)
            /\ tempoAdicionalProcessadoRef' =
                 [tempoAdicionalProcessadoRef EXCEPT ![c] = @ \cup {iv.id}]
            /\ tempoRestante' = [tempoRestante EXCEPT ![c] = 0]
            /\ estaNoTempoAdicional' = [estaNoTempoAdicional EXCEPT ![c] = FALSE]
            /\ armados' = [armados EXCEPT ![c] = clearInterval(@, intervalRef[c])]
            /\ intervalRef' = [intervalRef EXCEPT ![c] = NuloRodada]
       ELSE /\ tempoRestante' = [tempoRestante EXCEPT ![c] = novoTempo]
            /\ UNCHANGED <<timeoutVars, estaNoTempoAdicional>>
  /\ ult' = Ult("tiqueTimeout", c, 0, OK)
  /\ UNCHANGED <<adminVars, desmontado, erro, relogioVars, timerVars, canalVars, feedVars, cicloVars, agora, storeVars, rodadaAtual, pizzasAvaliacao, telaVars>>

\* values useOptimizedRodadas may hand to the hook as rodadaAtual: none, a round
\* in play, a finished round with or without its finalizou_em
ValoresDeRodada ==
  {NuloRodada} \cup
  {[id |-> i, status |-> "ativa", tempo_limite |-> TempoLimiteCurto,
    iniciou_em |-> 0, finalizou_em |-> SEM_DATA] : i \in Rodadas} \cup
  {[id |-> i, status |-> "finalizada", tempo_limite |-> TempoLimiteCurto,
    iniciou_em |-> 0, finalizou_em |-> f] : i \in Rodadas, f \in {SEM_DATA, 0, Passo}}

\* a render of the hook with the round value v; the effect re-runs when one of
\* its dependencies changed
ServirRodada(c, v) ==
  /\ c \in Timeouts
  /\ c \notin desmontado
  /\ v \in ValoresDeRodada
  /\ rodadaAtual' = [rodadaAtual EXCEPT ![c] = v]
  /\ IF DepsTimeout(v) # DepsTimeout(rodadaAtual[c])
     THEN EfeitoTimeout(c, v)
     ELSE UNCHANGED <<timeoutVars, telaTimeoutVars>>
  /\ ult' = Ult("servirRodada", c, v.id, OK)
  /\ UNCHANGED <<adminVars, desmontado, erro, relogioVars, timerVars, canalVars, feedVars, cicloVars, agora, storeVars, pizzasAvaliacao, telaVars>>

\* the component that uses the hook unmounts: the main effect's teardown, then
\* the unmount effect's
DesmontarTimeout(c) ==
  /\ c \in Timeouts
  /\ c \notin desmontado
  /\ desmontado' = desmontado \cup {c}
  /\ armados' = [armados EXCEPT ![c] = clearInterval(@, intervalRef[c])]
  /\ intervalRef' = [intervalRef EXCEPT ![c] = NuloRodada]
  /\ ult' = Ult("desmontarTimeout", c, 0, OK)
  /\ UNCHANGED <<adminVars, relogioVars, timerVars, canalVars, feedVars, cicloVars, agora, storeVars,
                 rodadaAtual, tempoAdicionalProcessadoRef, invocacoes, chamadas, tempoRestante, erro, estaNoTempoAdicional,
                 pizzasAvaliacao, telaVars>>

\* variant: the toast and the events follow the update whatever its answer
Anunciar_MesmoComErro(k, updateError) ==
  {[tipo |-> "toast.warning", c |-> k.c, rodadaId |-> k.rodadaId],
   [tipo |-> "pizzas-reprovadas-automaticamente", c |-> k.c, rodadaId |-> k.rodadaId],
   [tipo |-> "global-data-changed", c |-> k.c, rodadaId |-> k.rodadaId]}

\* what invocation k shows and dispatches once its bulk update is answered:
\* nothing past `if (updateError) return`, else the toast and the two events
Anunciar(k, updateError) ==
  IF updateError
  THEN {}
  ELSE {[tipo |-> "toast.warning", c |-> k.c, rodadaId |-> k.rodadaId],
        [tipo |-> "pizzas-reprovadas-automaticamente", c |-> k.c, rodadaId |-> k.rodadaId],
        [tipo |-> "global-data-changed", c |-> k.c, rodadaId |-> k.rodadaId]}

\* the store answers the select of one invocation
ReprovarSelect(k) ==
  /\ k \in chamadas
  /\ k.fase = "select"
  /\ LET pizzasPendentes == PendentesDe(pizzas, k.rodadaId)
         n == Cardinality(pizzasPendentes) IN
     chamadas' = (chamadas \ {k}) \cup
        {IF n = 0 THEN Chamada(k.c, k.rodadaId, "fim", 0, 0)
                  ELSE Chamada(k.c, k.rodadaId, "update", n, 0)}
  /\ ult' = Ult("reprovarSelect", k.c, 0, OK)
  /\ UNCHANGED <<adminVars, montagemVars, relogioVars, timerVars, canalVars, feedVars, cicloVars, agora, storeVars, rodadaAtual, tempoAdicionalProcessadoRef, invocacoes,
                 intervalRef, armados, pizzasAvaliacao, telaVars>>

\* the store applies the bulk update of one invocation; toast and events follow
ReprovarBulkUpdate(k) ==
  /\ k \in chamadas
  /\ k.fase = "update"
  /\ pizzas' = ReprovarUpdate(pizzas, k.rodadaId)
  /\ nAuto' = [i \in 1..Len(pizzas) |->
                 IF AlvoDaReprovacao(pizzas[i], k.rodadaId) THEN nAuto[i] + 1 ELSE nAuto[i]]
  /\ chamadas' = (chamadas \ {k}) \cup
       {Chamada(k.c, k.rodadaId, "fim", k.pendentes,
                Cardinality({i \in Ids : AlvoDaReprovacao(pizzas[i], k.rodadaId)}))}
  /\ eventos' = eventos \cup Anunciar(k, FALSE)
  /\ ult' = Ult("reprovarUpdate", k.c, 0, OK)
  /\ UNCHANGED <<adminVars, montagemVars, relogioVars, timerVars, canalVars, feedVars, cicloVars, agora, rodadas, criadaCom, rodadaAtual, tempoAdicionalProcessadoRef, invocacoes,
                 intervalRef, armados, pizzasAvaliacao, pizzasEquipe, saborSelecionado, envio>>

\* the select of one invocation is answered with an error: it is logged and
\* the invocation returns
ReprovarSelectErro(k) ==
  /\ k \in chamadas
  /\ k.fase = "select"
  /\ Cardinality({j \in chamadas : j.fase = "erro"}) < MaxFalhas
  /\ chamadas' = (chamadas \ {k}) \cup {Chamada(k.c, k.rodadaId, "erro", 0, 0)}
  /\ ult' = Ult("reprovarSelect", k.c, 0, "erro")
  /\ UNCHANGED <<adminVars, montagemVars, relogioVars, timerVars, canalVars, feedVars, cicloVars, agora, storeVars, rodadaAtual, tempoAdicionalProcessadoRef, invocacoes,
                 intervalRef, armados, pizzasAvaliacao, telaVars>>

\* the bulk update of one invocation is answered with an error: no row is
\* changed, it is logged and the invocation returns
ReprovarUpdateErro(k) ==
  /\ k \in chamadas
  /\ k.fase = "update"
  /\ Cardinality({j \in chamadas : j.fase = "erro"}) < MaxFalhas
  /\ chamadas' = (chamadas \ {k}) \cup {Chamada(k.c, k.rodadaId, "erro", k.pendentes, 0)}
  /\ eventos' = eventos \cup Anunciar(k, TRUE)
  /\ ult' = Ult("reprovarUpdate", k.c, 0, "erro")
  /\ UNCHANGED <<adminVars, montagemVars, relogioVars, timerVars, canalVars, feedVars, cicloVars, agora, storeVars, rodadaAtual, tempoAdicionalProcessadoRef, invocacoes,
                 intervalRef, armados, pizzasAvaliacao, pizzasEquipe, saborSelecionado, envio>>

\* ------------------------------------------------------------ environment
Avancar ==
  /\ agora + Passo <= MaxAgora
  /\ agora' = agora + Passo
  /\ ult' = Ult("avancar", "relogio", 0, OK)
  /\ UNCHANGED <<adminVars, montagemVars, relogioVars, timerVars, canalVars, feedVars, cicloVars, storeVars, rodadaAtual, timeoutVars, pizzasAvaliacao, telaVars>>

\* finalizarRodada(id) as the store sees it
FinalizarRodada(a) ==
  /\ a \in Admins
  /\ LET r == RodadaVigente IN
     /\ rodadas[r].status \in {"aguardando", "ativa", "pausada"}
     /\ rodadas' = [rodadas EXCEPT ![r].status = "finalizada",
                                   ![r].finalizou_em = agora]
  /\ ult' = Ult("finalizarRodada", a, 0, OK)
  /\ UNCHANGED <<adminVars, montagemVars, relogioVars, timerVars, canalVars, feedVars, cicloVars, agora, pizzas, criadaCom, nAuto, rodadaAtual, timeoutVars,
                 pizzasAvaliacao, telaVars>>

\* ------------------------------------------------- usePizzasParaAvaliacao
\* select ... .eq('status','pronta').is('resultado', null).order('created_at')
ParaAvaliacao(ps) ==
  SelectSeq([i \in 1..Len(ps) |-> i],
            LAMBDA i : ps[i].status = "pronta" /\ ps[i].resultado = NULO)

fetchPizzasParaAvaliacao(v) ==
  /\ v \in Avaliadores
  /\ pizzasAvaliacao' = [pizzasAvaliacao EXCEPT ![v] = ParaAvaliacao(pizzas)]
  /\ ult' = Ult("fetchPizzasParaAvaliacao", v, 0, OK)
  /\ UNCHANGED <<adminVars, montagemVars, relogioVars, timerVars, canalVars, feedVars, cicloVars, agora, storeVars, rodadaAtual, timeoutVars, telaVars>>

\* variant: the justification passed is stored whatever the verdict
Avaliada_ComJustificativa(p, resultado, justificativa) ==
  [p EXCEPT !.status = "avaliada",
            !.resultado = resultado,
            !.justificativa_reprovacao = IF justificativa = INDEFINIDO THEN @ ELSE justificativa,
            !.avaliado_por = AVALIADOR]

\* the row written by .update({...}).eq('id', pizzaId); a field whose value is
\* undefined is not sent, so the column keeps its value
Avaliada(p, resultado, justificativa) ==
  [p EXCEPT !.status = "avaliada",
            !.resultado = resultado,
            !.justificativa_reprovacao =
               IF resultado = "reprovada"
               THEN (IF justificativa = INDEFINIDO THEN @ ELSE justificativa)
               ELSE NULO,
            !.avaliado_por = AVALIADOR]

\* rows the update of avaliarPizza matches
AlvoDaAvaliacao(ps, i, pizzaId) == i = pizzaId /\ ps[i].status # REMOVIDA

SemId(lista, pizzaId) == SelectSeq(lista, LAMBDA x : x # pizzaId)

\* variant: the steps after the update run whatever its answer
AposUpdate_SemErro(v, pizzaId, error) ==
  [lista |-> SemId(pizzasAvaliacao[v], pizzaId),
   erro |-> erro[v],
   eventos |-> {[tipo |-> "pizza-avaliada", c |-> v, rodadaId |-> pizzas[pizzaId].rodada_id],
                [tipo |-> "global-data-changed", c |-> v, rodadaId |-> pizzas[pizzaId].rodada_id]},
   res |-> OK]

\* avaliarPizza after its await: `if (error) throw error` into the catch that
\* sets the error field and rethrows, else the local removal and the two events
AposUpdate(v, pizzaId, error) ==
  IF error
  THEN [lista |-> pizzasAvaliacao[v],
        erro |-> "Erro ao avaliar pizza",
        eventos |-> {},
        res |-> "throw"]
  ELSE [lista |-> SemId(pizzasAvaliacao[v], pizzaId),
        erro |-> erro[v],
        eventos |-> {[tipo |-> "pizza-avaliada", c |-> v, rodadaId |-> pizzas[pizzaId].rodada_id],
                     [tipo |-> "global-data-changed", c |-> v, rodadaId |-> pizzas[pizzaId].rodada_id]},
        res |-> OK]

avaliarPizza(v, pizzaId, resultado, justificativa) ==
  /\ v \in Avaliadores
  /\ pizzaId \in Ids
  /\ pizzas' = [i \in Ids |->
                  IF AlvoDaAvaliacao(pizzas, i, pizzaId)
                  THEN Avaliada(pizzas[i], resultado, justificativa)
                  ELSE pizzas[i]]
  /\ LET d == AposUpdate(v, pizzaId, FALSE) IN
       /\ pizzasAvaliacao' = [pizzasAvaliacao EXCEPT ![v] = d.lista]
       /\ erro' = [erro EXCEPT ![v] = d.erro]
       /\ eventos' = eventos \cup d.eventos
       /\ ult' = Ult("avaliarPizza", v, pizzaId, d.res)
  /\ UNCHANGED <<adminVars, desmontado, tempoRestante, estaNoTempoAdicional, relogioVars, timerVars, canalVars, feedVars, cicloVars, agora, rodadas, criadaCom, nAuto, rodadaAtual, timeoutVars,
                 pizzasEquipe, saborSelecionado, envio>>

\* the same call when the store answers the update with an error: no row changes
avaliarPizzaFalha(v, pizzaId) ==
  /\ v \in Avaliadores
  /\ pizzaId \in Ids
  /\ LET d == AposUpdate(v, pizzaId, TRUE) IN
       /\ pizzasAvaliacao' = [pizzasAvaliacao EXCEPT ![v] = d.lista]
       /\ erro' = [erro EXCEPT ![v] = d.erro]
       /\ eventos' = eventos \cup d.eventos
       /\ ult' = Ult("avaliarPizzaFalha", v, pizzaId, d.res)
  /\ UNCHANGED <<adminVars, desmontado, tempoRestante, estaNoTempoAdicional, relogioVars, timerVars, canalVars, feedVars, cicloVars, agora, storeVars, rodadaAtual, timeoutVars,
                 pizzasEquipe, saborSelecionado, envio>>

\* the evaluator presses approve / reject on an entry of the displayed list
Avaliar(v) ==
  \E pos \in 1..Len(pizzasAvaliacao[v]), resultado \in {"aprovada", "reprovada"},
     justificativa \in {"massa crua", INDEFINIDO} :
    avaliarPizza(v, pizzasAvaliacao[v][pos], resultado, justificativa)

\* the same press when the store refuses the update
AvaliarComFalha(v) ==
  \E pos \in 1..Len(pizzasAvaliacao[v]) : avaliarPizzaFalha(v, pizzasAvaliacao[v][pos])

\* ------------------------------ usePizzasParaAvaliacao: realtime changes
\* the postgres_changes payloads the store has sent for table pizzas: one
\* INSERT per row, one UPDATE per evaluated row, one DELETE per deleted row;
\* each may reach a subscriber late, more than once and in any order
Mudanca(tipo, id, status, resultado) ==
  [tipo |-> tipo, id |-> id, status |-> status, resultado |-> resultado]

Emitidas ==
  {Mudanca("INSERT", i, "pronta", NULO) : i \in Ids} \cup
  {Mudanca("UPDATE", i, pizzas[i].status, pizzas[i].resultado) :
     i \in {j \in Ids : pizzas[j].status = "avaliada"}} \cup
  {Mudanca("DELETE", i, REMOVIDA, pizzas[i].resultado) :
     i \in {j \in Ids : pizzas[j].status = REMOVIDA}}

Contem(lista, id) == \E k \in 1..Len(lista) : lista[k] = id

\* fetchPizzasParaAvaliacao up to its await: the store evaluates the query
IniciarFetch(v) ==
  /\ v \in Avaliadores
  /\ Cardinality({x \in respostas : x.v = v}) < MaxRespostas
  /\ respostas' = respostas \cup {[v |-> v, data |-> ParaAvaliacao(pizzas)]}
  /\ ultimaLida' = [ultimaLida EXCEPT ![v] = ParaAvaliacao(pizzas)]
  /\ ult' = Ult("iniciarFetch", v, 0, OK)
  /\ UNCHANGED <<adminVars, montagemVars, relogioVars, timerVars, canalVars, cicloVars, leituras, entregues, agora, storeVars, rodadaAtual,
                 timeoutVars, pizzasAvaliacao, telaVars>>

\* fetchPizzasParaAvaliacao after its await: setPizzas(data)
ConcluirFetch(x) ==
  /\ x \in respostas
  /\ respostas' = respostas \ {x}
  /\ pizzasAvaliacao' = [pizzasAvaliacao EXCEPT ![x.v] = x.data]
  /\ ult' = Ult("concluirFetch", x.v, 0, OK)
  /\ UNCHANGED <<adminVars, montagemVars, relogioVars, timerVars, canalVars, cicloVars, leituras, entregues, ultimaLida, agora, storeVars,
                 rodadaAtual, timeoutVars, telaVars>>

\* the postgres_changes callback up to its await, or to its end
Entregar(v, payload) ==
  /\ v \in Avaliadores
  /\ payload \in Emitidas
  /\ entregues' = [entregues EXCEPT ![v] = @ \cup {payload}]
  /\ IF payload.tipo = "INSERT"
     THEN IF payload.status = "pronta" /\ payload.resultado = NULO
          THEN /\ leituras' = leituras \cup {[v |-> v, id |-> payload.id, tipo |-> "INSERT"]}
               /\ UNCHANGED pizzasAvaliacao
          ELSE UNCHANGED <<leituras, pizzasAvaliacao>>
     ELSE IF payload.tipo = "UPDATE"
     THEN IF payload.status = "pronta" /\ payload.resultado = NULO
          THEN /\ leituras' = leituras \cup {[v |-> v, id |-> payload.id, tipo |-> "UPDATE"]}
               /\ UNCHANGED pizzasAvaliacao
          ELSE IF payload.status = "avaliada" \/ payload.resultado # NULO
          THEN /\ pizzasAvaliacao' = [pizzasAvaliacao EXCEPT ![v] = SemId(@, payload.id)]
               /\ UNCHANGED leituras
          ELSE UNCHANGED <<leituras, pizzasAvaliacao>>
     ELSE /\ pizzasAvaliacao' = [pizzasAvaliacao EXCEPT ![v] = SemId(@, payload.id)]
          /\ UNCHANGED leituras
  /\ ult' = Ult("postgres_changes", v, payload.id, payload.tipo)
  /\ UNCHANGED <<adminVars, montagemVars, relogioVars, timerVars, canalVars, cicloVars, respostas, ultimaLida, agora, storeVars, rodadaAtual,
                 timeoutVars, telaVars>>

\* variant: the row is put at the head without looking for its id in the list
ComPizzaCompleta_SemProcurar(prev, id) == <<id>> \o prev

\* the list after setPizzas(prev => ...) with the row the select by id returned
ComPizzaCompleta(prev, id) ==
  IF Contem(prev, id) THEN prev ELSE <<id>> \o prev

\* the callback after its await: the select by id answered with the row, or
\* with none when the row is gone
ConcluirLeitura(l) ==
  /\ l \in leituras
  /\ leituras' = leituras \ {l}
  /\ IF pizzas[l.id].status = REMOVIDA
     THEN UNCHANGED pizzasAvaliacao
     ELSE pizzasAvaliacao' = [pizzasAvaliacao EXCEPT ![l.v] = ComPizzaCompleta(@, l.id)]
  /\ ult' = Ult("pizzaCompleta", l.v, l.id, l.tipo)
  /\ UNCHANGED <<adminVars, montagemVars, relogioVars, timerVars, canalVars, cicloVars, respostas, entregues, ultimaLida, agora, storeVars,
                 rodadaAtual, timeoutVars, telaVars>>

\* a row of table pizzas is deleted in the store
RemoverDoBanco(i) ==
  /\ i \in Ids
  /\ pizzas[i].status # REMOVIDA
  /\ pizzas' = [pizzas EXCEPT ![i].status = REMOVIDA]
  /\ ult' = Ult("delete", "banco", i, OK)
  /\ UNCHANGED <<adminVars, montagemVars, relogioVars, timerVars, canalVars, feedVars, cicloVars, agora,
                 rodadas, criadaCom, nAuto, rodadaAtual, timeoutVars, pizzasAvaliacao, telaVars>>

\* ------------------------- usePizzasParaAvaliacao(equipeId): the channel
Vivos(cs) == {n \in Canais : cs[n] \in {"subscribing", "subscribed"}}

\* cleanupChannel applied to the refs and the client's channels
cleanupChannel(ref, sub, cs) ==
  IF ref # SemCanal /\ sub
  THEN [channelRef |-> SemCanal, isSubscribedRef |-> FALSE,
        canais |-> [cs EXCEPT ![ref] = "removido"],
        removido |-> IF cs[ref] \in {"subscribing", "subscribed"} THEN {ref} ELSE {}]
  ELSE [channelRef |-> ref, isSubscribedRef |-> sub, canais |-> cs, removido |-> {}]

NovoCanal(cs) == CHOOSE n \in Canais : cs[n] = "nenhum" /\ \A m \in Canais : cs[m] = "nenhum" => n <= m

\* the body of the subscription effect, run on the state k that the previous
\* run's teardown left
EfeitoCanal(k) ==
  LET c == cleanupChannel(k.channelRef, k.isSubscribedRef, k.canais)
      channel == NovoCanal(c.canais)
  IN [channelRef |-> channel,
      isSubscribedRef |-> c.isSubscribedRef,
      canais |-> [c.canais EXCEPT ![channel] =
                    IF ~c.isSubscribedRef THEN "subscribing" ELSE "criado"],
      removido |-> k.removido \cup c.removido]

\* the first render: the effect runs on the initial refs
Montar(e) ==
  /\ e \in Equipes
  /\ \A n \in Canais : canais[n] = "nenhum"
  /\ LET k == EfeitoCanal([channelRef |-> channelRef, isSubscribedRef |-> isSubscribedRef,
                           canais |-> canais, removido |-> {}]) IN
       /\ channelRef' = k.channelRef
       /\ isSubscribedRef' = k.isSubscribedRef
       /\ canais' = k.canais
       /\ fechando' = fechando \cup k.removido
  /\ equipeId' = e
  /\ ult' = Ult("montar", "v1", channelRef', OK)
  /\ UNCHANGED <<adminVars, montagemVars, relogioVars, timerVars, cicloVars, feedVars, agora, storeVars, rodadaAtual, timeoutVars,
                 pizzasAvaliacao, telaVars>>

\* a render with another equipeId: the previous run's teardown, then the effect
MudarEquipe(e) ==
  /\ e \in Equipes
  /\ e # equipeId
  /\ \E n \in Canais : canais[n] # "nenhum"
  /\ \E n \in Canais : canais[n] = "nenhum"
  /\ LET k == EfeitoCanal(cleanupChannel(channelRef, isSubscribedRef, canais)) IN
       /\ channelRef' = k.channelRef
       /\ isSubscribedRef' = k.isSubscribedRef
       /\ canais' = k.canais
       /\ fechando' = fechando \cup k.removido
  /\ equipeId' = e
  /\ ult' = Ult("mudarEquipe", "v1", channelRef', OK)
  /\ UNCHANGED <<adminVars, montagemVars, relogioVars, timerVars, cicloVars, feedVars, agora, storeVars, rodadaAtual, timeoutVars,
                 pizzasAvaliacao, telaVars>>

\* the callback given to channel.subscribe, called with a status of channel n
ReceberStatus(n, status) ==
  /\ n \in Canais
  /\ \/ /\ status = "SUBSCRIBED"
        /\ canais[n] = "subscribing"
        /\ canais' = [canais EXCEPT ![n] = "subscribed"]
        /\ isSubscribedRef' = TRUE
        /\ UNCHANGED fechando
     \/ /\ status = "CHANNEL_ERROR"
        /\ canais[n] = "subscribing"
        /\ isSubscribedRef' = FALSE
        /\ UNCHANGED <<canais, fechando>>
     \/ /\ status = "CLOSED"
        /\ n \in fechando
        /\ fechando' = fechando \ {n}
        /\ isSubscribedRef' = FALSE
        /\ UNCHANGED canais
  /\ ult' = Ult("subscribe", "v1", n, status)
  /\ UNCHANGED <<adminVars, montagemVars, relogioVars, timerVars, cicloVars, feedVars, equipeId, channelRef, agora, storeVars,
                 rodadaAtual, timeoutVars, pizzasAvaliacao, telaVars>>

\* ------------------- usePizzasParaAvaliacao(rodadaAtual): mount and unmount
\* the first render: the subscription effect starts the fetch, then creates
\* and subscribes its channel
MontarAvaliador(v) ==
  /\ v \in Avaliadores
  /\ v \notin desmontado
  /\ \A n \in Canais : canais[n] = "nenhum"
  /\ respostas' = respostas \cup {[v |-> v, data |-> ParaAvaliacao(pizzas)]}
  /\ ultimaLida' = [ultimaLida EXCEPT ![v] = ParaAvaliacao(pizzas)]
  /\ LET k == EfeitoCanal([channelRef |-> channelRef, isSubscribedRef |-> isSubscribedRef,
                           canais |-> canais, removido |-> {}]) IN
       /\ channelRef' = k.channelRef
       /\ isSubscribedRef' = k.isSubscribedRef
       /\ canais' = k.canais
       /\ fechando' = fechando \cup k.removido
  /\ ult' = Ult("montarAvaliador", v, channelRef', OK)
  /\ UNCHANGED <<adminVars, montagemVars, relogioVars, timerVars, cicloVars, leituras, entregues,
                 equipeId, agora, storeVars, rodadaAtual, timeoutVars, pizzasAvaliacao, telaVars>>

Montado(v) == v \notin desmontado /\ \E n \in Canais : canais[n] # "nenhum"

\* the realtime connection drops: the subscribe callback of a joined channel
\* is called with CLOSED
ReceberFechamento(n) ==
  /\ n \in Canais
  /\ canais[n] = "subscribed"
  /\ canais' = [canais EXCEPT ![n] = "fechado"]
  /\ isSubscribedRef' = FALSE
  /\ ult' = Ult("subscribe", "v1", n, "CLOSED")
  /\ UNCHANGED <<adminVars, montagemVars, relogioVars, timerVars, cicloVars, feedVars, equipeId,
                 channelRef, fechando, agora, storeVars, rodadaAtual, timeoutVars,
                 pizzasAvaliacao, telaVars>>

\* the realtime client calls the postgres_changes callback of a joined channel
EntregarNoCanal(v, payload) ==
  /\ \E n \in Canais : canais[n] = "subscribed"
  /\ Entregar(v, payload)

\* the answer of fetchPizzasParaAvaliacao is an error: setError
FalharFetch(x) ==
  /\ x \in respostas
  /\ respostas' = respostas \ {x}
  /\ erro' = [erro EXCEPT ![x.v] = "Erro ao carregar pizzas para avaliacao"]
  /\ ult' = Ult("falharFetch", x.v, 0, "erro")
  /\ UNCHANGED <<adminVars, relogioVars, timerVars, canalVars, cicloVars, leituras, entregues,
                 ultimaLida, desmontado, tempoRestante, estaNoTempoAdicional, agora, storeVars, rodadaAtual,
                 timeoutVars, pizzasAvaliacao, telaVars>>

EventosGlobais ==
  {[tipo |-> "global-data-changed", table |-> "pizzas"],
   [tipo |-> "global-data-changed", table |-> "rodadas"],
   [tipo |-> "pizza-avaliada", table |-> ""]}

\* variant: the listeners refetch only while the channel is subscribed
RefazBusca_SoConectado(ev) ==
  /\ isSubscribedRef
  /\ \/ ev.tipo = "global-data-changed" /\ ev.table = "pizzas"
     \/ ev.tipo = "pizza-avaliada"

\* handleGlobalDataChange and handlePizzaAvaliada: does the event start a fetch
RefazBusca(ev) ==
  \/ ev.tipo = "global-data-changed" /\ ev.table = "pizzas"
  \/ ev.tipo = "pizza-avaliada"

\* a window event reaches the hook's listeners
EventoGlobal(v, ev) ==
  /\ Montado(v)
  /\ ev \in EventosGlobais
  /\ IF RefazBusca(ev)
     THEN /\ Cardinality({x \in respostas : x.v = v}) < MaxRespostas
          /\ respostas' = respostas \cup {[v |-> v, data |-> ParaAvaliacao(pizzas)]}
          /\ ultimaLida' = [ultimaLida EXCEPT ![v] = ParaAvaliacao(pizzas)]
     ELSE UNCHANGED <<respostas, ultimaLida>>
  /\ ult' = Ult("eventoGlobal", v, 0, IF ev.table = "" THEN ev.tipo ELSE ev.table)
  /\ UNCHANGED <<adminVars, montagemVars, relogioVars, timerVars, canalVars, cicloVars, leituras,
                 entregues, agora, storeVars, rodadaAtual, timeoutVars, pizzasAvaliacao, telaVars>>

\* the body of the grace countdown effect, run for evaluator v with the round
\* r it was given, after the teardown of its previous run
EfeitoAdicional(v, r) ==
  LET limpo == clearInterval(armados[v], intervalRef[v]) IN
  IF r = NuloRodada \/ r.status # "finalizada" \/ r.finalizou_em = SEM_DATA
  THEN /\ intervalRef' = [intervalRef EXCEPT ![v] = NuloRodada]
       /\ armados' = [armados EXCEPT ![v] = limpo]
       /\ tempoRestante' = [tempoRestante EXCEPT ![v] = SEM_TEMPO]
  ELSE LET tempoInicial == calcularTempoRestante(r, agora) IN
       IF tempoInicial = SEM_TEMPO \/ tempoInicial <= 0
       THEN /\ intervalRef' = [intervalRef EXCEPT ![v] = NuloRodada]
            /\ armados' = [armados EXCEPT ![v] = limpo]
            /\ tempoRestante' = [tempoRestante EXCEPT ![v] = 0]
       ELSE /\ intervalRef' = [intervalRef EXCEPT ![v] = r]
            /\ armados' = [armados EXCEPT ![v] = limpo \cup {r}]
            /\ tempoRestante' = [tempoRestante EXCEPT ![v] = tempoInicial]

\* the evaluator's screen renders with the round its parent holds; the effect
\* re-runs when one of its dependencies changed
SincronizarAvaliador(v) ==
  /\ v \in Avaliadores
  /\ v \notin desmontado
  /\ LET r == rodadas[RodadaVigente] IN
     /\ rodadaAtual' = [rodadaAtual EXCEPT ![v] = r]
     /\ IF DepsTimeout(r) # DepsTimeout(rodadaAtual[v])
        THEN EfeitoAdicional(v, r)
        ELSE UNCHANGED <<intervalRef, armados, tempoRestante>>
  /\ ult' = Ult("sincronizarAvaliador", v, 0, OK)
  /\ UNCHANGED <<adminVars, relogioVars, timerVars, canalVars, feedVars, cicloVars, desmontado, erro, estaNoTempoAdicional,
                 agora, storeVars, tempoAdicionalProcessadoRef, invocacoes, chamadas, pizzasAvaliacao, telaVars>>

\* the setInterval callback of the grace countdown
TiqueAvaliador(v) ==
  /\ v \in Avaliadores
  /\ \E iv \in armados[v] :
       LET novoTempo == calcularTempoRestante(iv, agora) IN
       IF novoTempo = SEM_TEMPO \/ novoTempo <= 0
       THEN /\ tempoRestante' = [tempoRestante EXCEPT ![v] = 0]
            /\ armados' = [armados EXCEPT ![v] = clearInterval(@, intervalRef[v])]
            /\ intervalRef' = [intervalRef EXCEPT ![v] = NuloRodada]
       ELSE /\ tempoRestante' = [tempoRestante EXCEPT ![v] = novoTempo]
            /\ UNCHANGED <<intervalRef, armados>>
  /\ ult' = Ult("tiqueAvaliador", v, 0, OK)
  /\ UNCHANGED <<adminVars, relogioVars, timerVars, canalVars, feedVars, cicloVars, desmontado, erro, estaNoTempoAdicional,
                 agora, storeVars, rodadaAtual, tempoAdicionalProcessadoRef, invocacoes, chamadas,
                 pizzasAvaliacao, telaVars>>

\* the evaluator's screen unmounts: the teardowns of the countdown effect and
\* of the subscription effect, then the unmount effect's
DesmontarAvaliador(v) ==
  /\ Montado(v)
  /\ desmontado' = desmontado \cup {v}
  /\ armados' = [armados EXCEPT ![v] = clearInterval(@, intervalRef[v])]
  /\ intervalRef' = [intervalRef EXCEPT ![v] = NuloRodada]
  /\ LET k1 == cleanupChannel(channelRef, isSubscribedRef, canais)
         k2 == cleanupChannel(k1.channelRef, k1.isSubscribedRef, k1.canais) IN
       /\ channelRef' = k2.channelRef
       /\ isSubscribedRef' = k2.isSubscribedRef
       /\ canais' = k2.canais
       /\ fechando' = fechando \cup k1.removido \cup k2.removido
  /\ ult' = Ult("desmontarAvaliador", v, 0, OK)
  /\ UNCHANGED <<adminVars, relogioVars, timerVars, cicloVars, feedVars, equipeId, tempoRestante,
                 erro, estaNoTempoAdicional, agora, storeVars, rodadaAtual, tempoAdicionalProcessadoRef, invocacoes, chamadas,
                 pizzasAvaliacao, telaVars>>

\* ------------------------------------------- EquipeScreen: round countdown
Max(a, b) == IF a >= b THEN a ELSE b

\* Math.ceil(ms / 1000)
Teto(ms) == -((-ms) \div 1000)

\* variant: the seconds are rounded down
updateTimer_Piso(inicioRodada, duracaoRodada, agoraMs) ==
  LET resto == Max(0, duracaoRodada - (agoraMs - inicioRodada))
  IN [tempoRestante |-> resto \div 1000, continua |-> resto > 0]

\* updateTimer of the effect run that captured inicioRodada and duracaoRodada
\* (milliseconds), called at agoraMs: the value it displays and what it returns
updateTimer(inicioRodada, duracaoRodada, agoraMs) ==
  LET tempoDecorrido == agoraMs - inicioRodada
      resto == Max(0, duracaoRodada - tempoDecorrido)
  IN [tempoRestante |-> Teto(resto), continua |-> resto > 0]

\* updateTimer with the values the effect captured from round r
updateTimerDe(r, t) == updateTimer(r.iniciou_em * 1000, r.tempo_limite * 1000, t * 1000)

\* useRodadas hands the screen a new round object: the teardown of the effect's
\* previous run, then its body
SincronizarEquipe(t) ==
  /\ t \in Telas
  /\ t \notin desmontado
  /\ LET r == rodadas[RodadaVigente]
         limpo == clearInterval(armados[t], intervalRef[t]) IN
     /\ rodadaAtual' = [rodadaAtual EXCEPT ![t] = r]
     /\ IF r.status # "ativa" \/ r.iniciou_em = SEM_DATA
        THEN /\ intervalRef' = [intervalRef EXCEPT ![t] = NuloRodada]
             /\ armados' = [armados EXCEPT ![t] = limpo]
             /\ UNCHANGED tempoRestante
        ELSE /\ tempoRestante' = [tempoRestante EXCEPT ![t] = updateTimerDe(r, agora).tempoRestante]
             /\ IF ~updateTimerDe(r, agora).continua
                THEN /\ intervalRef' = [intervalRef EXCEPT ![t] = NuloRodada]
                     /\ armados' = [armados EXCEPT ![t] = limpo]
                ELSE /\ intervalRef' = [intervalRef EXCEPT ![t] = r]
                     /\ armados' = [armados EXCEPT ![t] = limpo \cup {r}]
  /\ ult' = Ult("sincronizarEquipe", t, 0, OK)
  /\ UNCHANGED <<adminVars, relogioVars, timerVars, canalVars, feedVars, cicloVars, desmontado, erro, estaNoTempoAdicional,
                 agora, storeVars, tempoAdicionalProcessadoRef, invocacoes, chamadas, pizzasAvaliacao, telaVars>>

\* the setInterval callback: it clears its own interval when updateTimer
\* returns false
TiqueEquipe(t) ==
  /\ t \in Telas
  /\ \E iv \in armados[t] :
       /\ tempoRestante' = [tempoRestante EXCEPT ![t] = updateTimerDe(iv, agora).tempoRestante]
       /\ armados' = [armados EXCEPT ![t] =
            IF ~updateTimerDe(iv, agora).continua THEN clearInterval(@, iv) ELSE @]
  /\ ult' = Ult("tiqueEquipe", t, 0, OK)
  /\ UNCHANGED <<adminVars, relogioVars, timerVars, canalVars, feedVars, cicloVars, desmontado, erro, estaNoTempoAdicional,
                 agora, storeVars, rodadaAtual, tempoAdicionalProcessadoRef, invocacoes, intervalRef, chamadas,
                 pizzasAvaliacao, telaVars>>

\* the screen unmounts: the effect's teardown
DesmontarEquipe(t) ==
  /\ t \in Telas
  /\ t \notin desmontado
  /\ desmontado' = desmontado \cup {t}
  /\ armados' = [armados EXCEPT ![t] = clearInterval(@, intervalRef[t])]
  /\ ult' = Ult("desmontarEquipe", t, 0, OK)
  /\ UNCHANGED <<adminVars, relogioVars, timerVars, canalVars, feedVars, cicloVars, tempoRestante, erro, estaNoTempoAdicional,
                 agora, storeVars, rodadaAtual, tempoAdicionalProcessadoRef, invocacoes, intervalRef, chamadas,
                 pizzasAvaliacao, telaVars>>

\* ----------------------------------------------------------- FilaProducao
\* useSynchronizedTimer(rodadaAtual).timeRemaining, re-derived every second
timeRemaining(t) ==
  LET r == rodadaAtual[t] IN
  IF r = NuloRodada \/ r.iniciou_em = SEM_DATA THEN 0
  ELSE LET restanteMs == (r.iniciou_em + r.tempo_limite) * 1000 - agora * 1000
       IN IF restanteMs <= 0 THEN 0 ELSE (restanteMs + 999) \div 1000

\* useSynchronizedTimer(rodadaAtual).isActive: the timer is counting
isActive(t) == rodadaAtual[t].status = "ativa" /\ timeRemaining(t) > 0

\* usePizzas(equipeId, rodadaAtual?.id): the team's items of the round
PizzasDaEquipe(ps, rodadaId) ==
  {i \in 1..Len(ps) : ps[i].equipe_id = EquipeDaTela /\ ps[i].rodada_id = rodadaId}

\* variant: only the items still waiting for the evaluator are counted
verificarLimitePizzas_SoProntas(t) ==
  Cardinality({i \in pizzasEquipe[t] : i \in Ids /\ pizzas[i].status = "pronta"}) >= LimitePizzasRodada

verificarLimitePizzas(t) == Cardinality(pizzasEquipe[t]) >= LimitePizzasRodada

\* variant: the timer is not consulted
podeEnviarPizza_SemTimer(t) ==
  /\ rodadaAtual[t] # NuloRodada
  /\ rodadaAtual[t].status = "ativa"

podeEnviarPizza(t) ==
  /\ rodadaAtual[t] # NuloRodada
  /\ rodadaAtual[t].status = "ativa"
  /\ ~(~isActive(t) \/ timeRemaining(t) <= 0)

SincronizarTela(t) ==
  /\ t \in Telas
  /\ rodadaAtual' = [rodadaAtual EXCEPT ![t] = rodadas[RodadaVigente]]
  /\ ult' = Ult("sincronizarTela", t, 0, OK)
  /\ UNCHANGED <<adminVars, montagemVars, relogioVars, timerVars, canalVars, feedVars, cicloVars, agora, storeVars, timeoutVars, pizzasAvaliacao, telaVars>>

FetchPizzasEquipe(t) ==
  /\ t \in Telas
  /\ pizzasEquipe' = [pizzasEquipe EXCEPT ![t] = PizzasDaEquipe(pizzas, rodadaAtual[t].id)]
  /\ ult' = Ult("fetchPizzasEquipe", t, 0, OK)
  /\ UNCHANGED <<adminVars, montagemVars, relogioVars, timerVars, canalVars, feedVars, cicloVars, agora, storeVars, rodadaAtual, timeoutVars, pizzasAvaliacao,
                 saborSelecionado, envio, eventos>>

\* onValueChange={setSaborSelecionado}
SelecionarSabor(t) ==
  /\ t \in Telas
  /\ \E s \in Sabores : saborSelecionado' = [saborSelecionado EXCEPT ![t] = s]
  /\ ult' = Ult("selecionarSabor", t, 0, OK)
  /\ UNCHANGED <<adminVars, montagemVars, relogioVars, timerVars, canalVars, feedVars, cicloVars, agora, storeVars, rodadaAtual, timeoutVars, pizzasAvaliacao,
                 pizzasEquipe, envio, eventos>>

\* handleEnviarPizza up to the await of marcarPizzaPronta
handleEnviarPizza(t) ==
  /\ t \in Telas
  /\ envio[t] = SemEnvio
  /\ IF rodadaAtual[t] = NuloRodada
     THEN /\ ult' = Ult("handleEnviarPizza", t, 0, "sem rodada")
          /\ UNCHANGED <<envio, eventos>>
     ELSE IF saborSelecionado[t] = ""
     THEN /\ ult' = Ult("handleEnviarPizza", t, 0, "selecione o sabor")
          /\ UNCHANGED <<envio, eventos>>
     ELSE IF ~podeEnviarPizza(t)
     THEN /\ ult' = Ult("handleEnviarPizza", t, 0, "tempo esgotado")
          /\ UNCHANGED <<envio, eventos>>
     ELSE IF verificarLimitePizzas(t)
     THEN /\ ult' = Ult("handleEnviarPizza", t, 0, "limite atingido")
          /\ UNCHANGED <<envio, eventos>>
     ELSE /\ eventos' = eventos \cup
               {[tipo |-> "pizza-sabor-selecionado", c |-> t, rodadaId |-> rodadaAtual[t].id]}
          /\ envio' = [envio EXCEPT ![t] =
               [rodadaId |-> rodadaAtual[t].id, sabor |-> saborSelecionado[t]]]
          /\ ult' = Ult("handleEnviarPizza", t, 0, "enviando")
  /\ UNCHANGED <<adminVars, montagemVars, relogioVars, timerVars, canalVars, feedVars, cicloVars, agora, storeVars, rodadaAtual, timeoutVars, pizzasAvaliacao,
                 pizzasEquipe, saborSelecionado>>

NovaPizza(rodadaId, sabor) ==
  [rodada_id |-> rodadaId, equipe_id |-> EquipeDaTela, sabor_id |-> sabor,
   status |-> "pronta", resultado |-> NULO,
   justificativa_reprovacao |-> NULO, avaliado_por |-> NULO]

\* marcarPizzaPronta(equipeId, rodadaId, saborId) resolves: the item is in the
\* store and in the hook's list; handleEnviarPizza continues after its await
marcarPizzaPronta(t) ==
  /\ t \in Telas
  /\ envio[t] # SemEnvio
  /\ Len(pizzas) < MaxPizzas
  /\ pizzas' = Append(pizzas, NovaPizza(envio[t].rodadaId, envio[t].sabor))
  /\ criadaCom' = Append(criadaCom, rodadas[envio[t].rodadaId].status)
  /\ nAuto' = Append(nAuto, 0)
  /\ pizzasEquipe' = [pizzasEquipe EXCEPT ![t] = PizzasDaEquipe(pizzas', rodadaAtual[t].id)]
  /\ eventos' = eventos \cup
       {[tipo |-> "onPizzaEnviada", c |-> t, rodadaId |-> envio[t].rodadaId]}
  /\ saborSelecionado' = [saborSelecionado EXCEPT ![t] = ""]
  /\ envio' = [envio EXCEPT ![t] = SemEnvio]
  /\ ult' = Ult("marcarPizzaPronta", t, Len(pizzas) + 1, OK)
  /\ UNCHANGED <<adminVars, montagemVars, relogioVars, timerVars, canalVars, feedVars, cicloVars, agora, rodadas, rodadaAtual, timeoutVars, pizzasAvaliacao>>

\* marcarPizzaPronta(equipeId, rodadaId, saborId) rejects: no item is created;
\* handleEnviarPizza continues in its catch and its finally
marcarPizzaProntaFalha(t) ==
  /\ t \in Telas
  /\ envio[t] # SemEnvio
  /\ envio' = [envio EXCEPT ![t] = SemEnvio]
  /\ ult' = Ult("marcarPizzaPronta", t, 0, "Erro ao enviar pizza")
  /\ UNCHANGED <<adminVars, montagemVars, relogioVars, timerVars, canalVars, feedVars, cicloVars, agora, storeVars, rodadaAtual, timeoutVars, pizzasAvaliacao,
                 pizzasEquipe, saborSelecionado, eventos>>

\* ------------------------------------------------- round state machine
\* the store side of the round operations of useOptimizedRodadas; each returns
\* the outcome and the table after the request
NaoFinalizada(rd) == rd.status \in {"aguardando", "ativa", "pausada"}

Resposta(res, rs, id) == [res |-> res, rodadas |-> rs, id |-> id]

IdLivre == CHOOSE r \in Rodadas :
             /\ rodadas[r].status = "nenhuma"
             /\ \A q \in Rodadas : rodadas[q].status = "nenhuma" => r <= q

\* variant: the insert does not look for a round still open
criarNovaRodada_SemConflito(rs, id, tempoLimite) ==
  Resposta(OK,
           [rs EXCEPT ![id] = [id |-> id, status |-> "aguardando",
                               tempo_limite |-> tempoLimite,
                               iniciou_em |-> SEM_DATA, finalizou_em |-> SEM_DATA]],
           id)

criarNovaRodada(rs, id, tempoLimite) ==
  IF \E r \in Rodadas : NaoFinalizada(rs[r])
  THEN Resposta("ConflictError", rs, 0)
  ELSE Resposta(OK,
                [rs EXCEPT ![id] = [id |-> id, status |-> "aguardando",
                                    tempo_limite |-> tempoLimite,
                                    iniciou_em |-> SEM_DATA, finalizou_em |-> SEM_DATA]],
                id)

iniciarRodada(rs, id, t) ==
  IF rs[id].status = "aguardando"
  THEN Resposta(OK, [rs EXCEPT ![id].status = "ativa", ![id].iniciou_em = t], id)
  ELSE IF rs[id].status = "pausada"
  THEN Resposta(OK, [rs EXCEPT ![id].status = "ativa",
                               ![id].iniciou_em = @ + (t - pausouEm[id])], id)
  ELSE Resposta("InvalidTransitionError", rs, id)

\* variant: the status the round has is not looked at
pausarRodada_SemVerificacao(rs, id) ==
  Resposta(OK, [rs EXCEPT ![id].status = "pausada"], id)

pausarRodada(rs, id) ==
  IF rs[id].status = "ativa"
  THEN Resposta(OK, [rs EXCEPT ![id].status = "pausada"], id)
  ELSE Resposta("InvalidTransitionError", rs, id)

finalizarRodada(rs, id, t) ==
  IF NaoFinalizada(rs[id])
  THEN Resposta(OK, [rs EXCEPT ![id].status = "finalizada", ![id].finalizou_em = t], id)
  ELSE Resposta(OK, rs, id)

Ordinais(n) == [i \in 1..n |-> i - 1]

\* variant: entries are inserted whether or not the round has some
criarSequenciaParaRodada_SemGuarda(h, id, n) ==
  [h EXCEPT ![id] = @ \o Ordinais(n)]

\* useSequenciaSabores.criarSequenciaParaRodada(rodadaId, numeroPizzas)
criarSequenciaParaRodada(h, id, n) ==
  IF h[id] # <<>> THEN h ELSE [h EXCEPT ![id] = Ordinais(n)]

\* ------------------------------------------------ the flavors on display
\* [...historico].sort((a, b) => a.ordem - b.ordem)
RECURSIVE OrdenarPorOrdem(_)
OrdenarPorOrdem(h) ==
  IF h = <<>> THEN <<>>
  ELSE LET menor == CHOOSE k \in 1..Len(h) : \A j \in 1..Len(h) : h[k] <= h[j]
           resto == [j \in 1..(Len(h) - 1) |-> IF j < menor THEN h[j] ELSE h[j + 1]]
       IN <<h[menor]>> \o OrdenarPorOrdem(resto)

\* lista[k] of a JavaScript array, k counted from 0: undefined past its end
NaPosicao(lista, k) ==
  IF k >= 0 /\ k < Len(lista) THEN lista[k + 1] ELSE SEM_SABOR

\* VisualizadorSaboresRodada: the entries it renders as current, next and
\* after-next for the history h it was given
VisualizadorSaboresRodada(h) ==
  LET historicoOrdenado == OrdenarPorOrdem(h) IN
  [saborAtual    |-> NaPosicao(historicoOrdenado, 0),
   proximoSabor2 |-> NaPosicao(historicoOrdenado, 1),
   proximoSabor3 |-> NaPosicao(historicoOrdenado, 2)]

\* the sequence cursor of a round with n entries at instant t:
\* floor(elapsed / interval) kept within 0..n-1, with interval = tempo_limite / n
Cursor(r, n, t) ==
  LET decorrido == Max(0, t - r.iniciou_em)
      bruto == (decorrido * n) \div r.tempo_limite
  IN IF bruto > n - 1 THEN n - 1 ELSE bruto

\* the entries at the cursor and at the two positions after it
NoCursor(h, cursor) ==
  LET ordenado == OrdenarPorOrdem(h) IN
  [saborAtual    |-> NaPosicao(ordenado, cursor),
   proximoSabor2 |-> NaPosicao(ordenado, cursor + 1),
   proximoSabor3 |-> NaPosicao(ordenado, cursor + 2)]

\* the round useOptimizedRodadas serves, none while the table is empty
RodadaServida ==
  IF \A r \in Rodadas : rodadas[r].status = "nenhuma"
  THEN NuloRodada
  ELSE rodadas[RodadaVigente]

\* ---------------------------------------------------------- ProducaoScreen
SincronizarAdmin(a) ==
  /\ a \in Admins
  /\ rodadaAtual' = [rodadaAtual EXCEPT ![a] = RodadaServida]
  /\ ult' = Ult("sincronizarAdmin", a, 0, OK)
  /\ UNCHANGED <<adminVars, montagemVars, relogioVars, timerVars, canalVars, feedVars, cicloVars, agora, storeVars, timeoutVars, pizzasAvaliacao, telaVars>>

novoTempoLimite(a, minutos) == rodadaAtual[a].tempo_limite + minutos * 60

\* the +/- buttons are enabled only while the cached round is 'ativa'
adicionarMinutos(a, minutos) ==
  /\ a \in Admins
  /\ rodadaAtual[a] # NuloRodada
  /\ rodadaAtual[a].status = "ativa"
  /\ novoTempoLimite(a, minutos) \in -MaxTempoLimite..MaxTempoLimite
  /\ somaMinutos + minutos \in -MaxSomaMinutos..MaxSomaMinutos
  /\ rodadas' = [rodadas EXCEPT ![rodadaAtual[a].id].tempo_limite = novoTempoLimite(a, minutos)]
  /\ somaMinutos' = somaMinutos + minutos
  /\ eventos' = eventos \cup
       {[tipo |-> "rodada-tempo-alterado", c |-> a, rodadaId |-> rodadaAtual[a].id]}
  /\ ult' = Ult("adicionarMinutos", a, minutos, OK)
  /\ UNCHANGED <<montagemVars, relogioVars, timerVars, cicloVars, feedVars, canalVars, agora, pizzas, criadaCom, nAuto, rodadaAtual,
                 timeoutVars, pizzasAvaliacao, pizzasEquipe, saborSelecionado, envio>>

\* handleIniciarRodada from the press of 'Iniciar Rodada' to its first
\* suspension after the store answered the first request
handleIniciarRodada(a) ==
  /\ a \in Admins
  /\ rodadaAtual[a].status \notin {"ativa", "pausada"}
  /\ inicio[a] = SemInicio
  /\ IF rodadaAtual[a] = NuloRodada
     THEN /\ \E r \in Rodadas : rodadas[r].status = "nenhuma"
          /\ \E tempoLimite \in TemposLimite :
               LET novaRodada == criarNovaRodada(rodadas, IdLivre, tempoLimite) IN
                 /\ rodadas' = novaRodada.rodadas
                 /\ inicio' = [inicio EXCEPT ![a] =
                      IF novaRodada.res = OK
                      THEN [fase |-> "sequenciaNova", rodadaId |-> novaRodada.id]
                      ELSE SemInicio]
                 /\ ult' = Ult("handleIniciarRodada", a, novaRodada.id, novaRodada.res)
     ELSE IF rodadaAtual[a].status = "aguardando"
     THEN /\ inicio' = [inicio EXCEPT ![a] =
               [fase |-> IF historico[rodadaAtual[a].id] = <<>> THEN "sequencia" ELSE "iniciar",
                rodadaId |-> rodadaAtual[a].id]]
          /\ ult' = Ult("handleIniciarRodada", a, rodadaAtual[a].id, "select")
          /\ UNCHANGED rodadas
     ELSE /\ ult' = Ult("handleIniciarRodada", a, rodadaAtual[a].id, "nada")
          /\ UNCHANGED <<rodadas, inicio>>
  /\ UNCHANGED <<adminVars, montagemVars, relogioVars, timerVars, canalVars, feedVars, historico, pausouEm, finalizadores, agora, pizzas, criadaCom, nAuto, rodadaAtual, timeoutVars,
                 pizzasAvaliacao, telaVars>>

\* handleIniciarRodada resumes with the call of criarSequenciaParaRodada
ContinuarSequencia(a) ==
  /\ a \in Admins
  /\ inicio[a].fase \in {"sequenciaNova", "sequencia"}
  /\ historico' = criarSequenciaParaRodada(historico, inicio[a].rodadaId, NumeroPizzas)
  /\ inicio' = [inicio EXCEPT ![a] =
       IF inicio[a].fase = "sequenciaNova" THEN SemInicio
       ELSE [fase |-> "iniciar", rodadaId |-> inicio[a].rodadaId]]
  /\ ult' = Ult("criarSequenciaParaRodada", a, inicio[a].rodadaId,
                IF historico' = historico THEN "existente" ELSE OK)
  /\ UNCHANGED <<adminVars, montagemVars, relogioVars, timerVars, canalVars, feedVars, pausouEm, finalizadores, agora, storeVars,
                 rodadaAtual, timeoutVars, pizzasAvaliacao, telaVars>>

\* handleIniciarRodada resumes with the call of iniciarRodada
ContinuarIniciar(a) ==
  /\ a \in Admins
  /\ inicio[a].fase = "iniciar"
  /\ LET r == iniciarRodada(rodadas, inicio[a].rodadaId, agora) IN
       /\ rodadas' = r.rodadas
       /\ ult' = Ult("iniciarRodada", a, inicio[a].rodadaId, r.res)
  /\ inicio' = [inicio EXCEPT ![a] = SemInicio]
  /\ UNCHANGED <<adminVars, montagemVars, relogioVars, timerVars, canalVars, feedVars, historico, pausouEm, finalizadores, agora, pizzas, criadaCom, nAuto, rodadaAtual, timeoutVars,
                 pizzasAvaliacao, telaVars>>

\* variant: a request that changed no row is reported as a failure
handleFinalizarRodada_ErroSemAlteracao(a, origem) ==
  /\ a \in Admins
  /\ rodadaAtual[a] # NuloRodada
  /\ LET r == finalizarRodada(rodadas, rodadaAtual[a].id, agora) IN
       /\ rodadas' = r.rodadas
       /\ ult' = Ult(origem, a, rodadaAtual[a].id,
                     IF r.rodadas = rodadas THEN "Erro ao finalizar rodada" ELSE r.res)
  /\ finalizadores' = [finalizadores EXCEPT ![rodadaAtual[a].id] = @ \cup {a}]
  /\ UNCHANGED <<adminVars, montagemVars, relogioVars, timerVars, canalVars, feedVars, historico, pausouEm, inicio, agora, pizzas,
                 criadaCom, nAuto, rodadaAtual, timeoutVars, pizzasAvaliacao, telaVars>>

handleFinalizarRodada(a, origem) ==
  /\ a \in Admins
  /\ rodadaAtual[a] # NuloRodada
  /\ LET r == finalizarRodada(rodadas, rodadaAtual[a].id, agora) IN
       /\ rodadas' = r.rodadas
       /\ ult' = Ult(origem, a, rodadaAtual[a].id, r.res)
  /\ finalizadores' = [finalizadores EXCEPT ![rodadaAtual[a].id] = @ \cup {a}]
  /\ UNCHANGED <<adminVars, montagemVars, relogioVars, timerVars, canalVars, feedVars, historico, pausouEm, inicio, agora, pizzas,
                 criadaCom, nAuto, rodadaAtual, timeoutVars, pizzasAvaliacao, telaVars>>

\* the 'Encerrar' buttons, shown while the cached round is 'ativa' or 'pausada'
Encerrar(a) ==
  /\ rodadaAtual[a].status \in {"ativa", "pausada"}
  /\ handleFinalizarRodada(a, "encerrar")

\* useSynchronizedTimer's onTimeUp on a screen whose cached round ran out
OnTimeUp(a) ==
  /\ rodadaAtual[a].status = "ativa"
  /\ timeRemaining(a) = 0
  /\ handleFinalizarRodada(a, "onTimeUp")

\* no button of the screen calls it; its only guard is on the cached round
handlePausarRodada(a) ==
  /\ a \in Admins
  /\ rodadaAtual[a] # NuloRodada
  /\ LET r == pausarRodada(rodadas, rodadaAtual[a].id) IN
       /\ rodadas' = r.rodadas
       /\ pausouEm' = IF r.res = OK THEN [pausouEm EXCEPT ![rodadaAtual[a].id] = agora]
                      ELSE pausouEm
       /\ ult' = Ult("handlePausarRodada", a, rodadaAtual[a].id, r.res)
  /\ UNCHANGED <<adminVars, montagemVars, relogioVars, timerVars, canalVars, feedVars, historico, inicio, finalizadores, agora, pizzas, criadaCom, nAuto, rodadaAtual, timeoutVars,
                 pizzasAvaliacao, telaVars>>

\* variant: the failure of the request is not reported
handleRetomarRodada_SemErro(a) ==
  /\ a \in Admins
  /\ rodadaAtual[a].status = "pausada"
  /\ LET r == iniciarRodada(rodadas, rodadaAtual[a].id, agora) IN
       /\ rodadas' = r.rodadas
       /\ ult' = Ult("handleRetomarRodada", a, rodadaAtual[a].id, OK)
  /\ UNCHANGED <<adminVars, montagemVars, relogioVars, timerVars, canalVars, feedVars, cicloVars, agora, pizzas, criadaCom, nAuto, rodadaAtual,
                 timeoutVars, pizzasAvaliacao, telaVars>>

\* the 'Retomar' buttons, shown while the cached round is 'pausada'
handleRetomarRodada(a) ==
  /\ a \in Admins
  /\ rodadaAtual[a].status = "pausada"
  /\ LET r == iniciarRodada(rodadas, rodadaAtual[a].id, agora) IN
       /\ rodadas' = r.rodadas
       /\ ult' = Ult("handleRetomarRodada", a, rodadaAtual[a].id, r.res)
  /\ UNCHANGED <<adminVars, montagemVars, relogioVars, timerVars, canalVars, feedVars, cicloVars, agora, pizzas, criadaCom, nAuto, rodadaAtual,
                 timeoutVars, pizzasAvaliacao, telaVars>>

\* ------------------------------------------------- useSynchronizedTimer
\* remaining seconds of round r at instant t (Clock Reconciler)
RestanteDe(r, t) ==
  IF r = NuloRodada \/ r.iniciou_em = SEM_DATA THEN 0
  ELSE LET restanteMs == (r.iniciou_em + r.tempo_limite) * 1000 - t * 1000
       IN IF restanteMs <= 0 THEN 0 ELSE Teto(restanteMs)

Aviso(rodadaId, limiar) == [tipo |-> "onWarning", rodadaId |-> rodadaId, limiar |-> limiar]
Esgotado(rodadaId) == [tipo |-> "onTimeUp", rodadaId |-> rodadaId, limiar |-> 0]

\* variant: a threshold already notified for the round is notified again
AvisosDevidos_TodoTique(tm, restante) ==
  {l \in Limiares : restante > 0 /\ restante <= l}

\* thresholds the tick that observes restante has to notify
AvisosDevidos(tm, restante) ==
  {l \in Limiares : restante > 0 /\ restante <= l /\ <<tm.rodada.id, l>> \notin tm.avisados}

\* the timer of a consumer torn down and rearmed from scratch for the round
\* value r; what was notified for a round is remembered
ArmarTimer(tm, r) ==
  [tm EXCEPT !.estado = IF r.status = "ativa" /\ r.iniciou_em # SEM_DATA
                        THEN (IF r.id \in tm.esgotadas THEN "expired" ELSE "counting")
                        ELSE "idle",
             !.rodada = IF r.status = "ativa" /\ r.iniciou_em # SEM_DATA THEN r ELSE NuloRodada]

\* the consumer's cached round is refreshed; a changed round rearms the timer
SincronizarTimer(c) ==
  /\ c \in Consumidores
  /\ c \notin desmontado
  /\ rodadaAtual' = [rodadaAtual EXCEPT ![c] = RodadaServida]
  /\ timer' = [timer EXCEPT ![c] =
       IF RodadaServida # rodadaAtual[c] THEN ArmarTimer(@, RodadaServida) ELSE @]
  /\ ult' = Ult("sincronizarTimer", c, 0, OK)
  /\ UNCHANGED <<adminVars, montagemVars, relogioVars, notificadas, canalVars, feedVars, cicloVars,
                 agora, storeVars, timeoutVars, pizzasAvaliacao, telaVars>>

SeqDe(S) == IF S = {} THEN <<>> ELSE <<CHOOSE x \in S : TRUE>>

\* the once-per-second tick of a counting timer; a control screen's onTimeUp
\* calls handleFinalizarRodada
TiqueTimer(c) ==
  /\ c \in Consumidores
  /\ timer[c].estado = "counting"
  /\ LET tm == timer[c]
         restante == RestanteDe(tm.rodada, agora)
         avisos == AvisosDevidos(tm, restante)
         fim == restante = 0
     IN /\ timer' = [timer EXCEPT ![c] =
               [tm EXCEPT !.avisados = @ \cup {<<tm.rodada.id, l>> : l \in avisos},
                          !.esgotadas = IF fim THEN @ \cup {tm.rodada.id} ELSE @,
                          !.estado = IF fim THEN "expired" ELSE "counting"]]
        /\ notificadas' = [notificadas EXCEPT ![c] =
               @ \o SeqDe({Aviso(tm.rodada.id, l) : l \in avisos})
                 \o (IF fim THEN <<Esgotado(tm.rodada.id)>> ELSE <<>>)]
        /\ IF fim /\ c \in Admins /\ rodadaAtual[c] # NuloRodada
           THEN /\ rodadas' = finalizarRodada(rodadas, rodadaAtual[c].id, agora).rodadas
                /\ finalizadores' = [finalizadores EXCEPT ![rodadaAtual[c].id] = @ \cup {c}]
           ELSE UNCHANGED <<rodadas, finalizadores>>
        /\ ult' = Ult("tiqueTimer", c, restante, OK)
  /\ UNCHANGED <<adminVars, montagemVars, relogioVars, canalVars, feedVars, historico, pausouEm,
                 inicio, agora, pizzas, criadaCom, nAuto, rodadaAtual, timeoutVars,
                 pizzasAvaliacao, telaVars>>

\* the consumer unmounts: the timer is cancelled
DesmontarTimer(c) ==
  /\ c \in Consumidores
  /\ c \notin desmontado
  /\ desmontado' = desmontado \cup {c}
  /\ timer' = [timer EXCEPT ![c].estado = "idle", ![c].rodada = NuloRodada]
  /\ ult' = Ult("desmontarTimer", c, 0, OK)
  /\ UNCHANGED <<adminVars, relogioVars, notificadas, canalVars, feedVars, cicloVars, tempoRestante,
                 erro, estaNoTempoAdicional, agora, storeVars, rodadaAtual, timeoutVars, pizzasAvaliacao, telaVars>>

\* --------------------------------------- remaining time, in milliseconds
\* useAvaliacaoTimeout.calcularTempoRestante for a finished round whose
\* finalizou_em is fimRodada (getTime()), called at agoraMs
calcularTempoRestanteMs(fimRodada, agoraMs) ==
  LET fimTempoAdicional == fimRodada + (TEMPO_ADICIONAL_SEGUNDOS * 1000)
      tempoRestanteMs == fimTempoAdicional - agoraMs
  IN IF tempoRestanteMs <= 0 THEN 0 ELSE Teto(tempoRestanteMs)

\* usePizzasParaAvaliacao.calcularTempoRestante, likewise
calcularTempoRestanteAvaliacaoMs(fimRodada, agoraMs) ==
  LET fimTempoAdicional == fimRodada + (TEMPO_ADICIONAL_SEGUNDOS * 1000)
      tempoRestanteMs == fimTempoAdicional - agoraMs
  IN IF tempoRestanteMs <= 0 THEN 0 ELSE Teto(tempoRestanteMs)

Ancoras == {0, 1, 999, 1000, 1500}
Desvios == {-2000, -1001, -1000, -999, -500, -1, 0, 1, 500, 1000}
LimitesEmSegundos == {1, 2, TempoLimiteCurto}

Calculo(por, anchor, limite, agoraMs, valor) ==
  [por |-> por, anchor |-> anchor, limite |-> limite, agoraMs |-> agoraMs, valor |-> valor]

\* one call of each implementation, at an instant d milliseconds from the end
CalcularTimeout(anchor, d) ==
  /\ anchor \in Ancoras /\ d \in Desvios
  /\ LET agoraMs == anchor + TEMPO_ADICIONAL_SEGUNDOS * 1000 + d IN
       calc' = Calculo("useAvaliacaoTimeout", anchor, TEMPO_ADICIONAL_SEGUNDOS, agoraMs,
                       calcularTempoRestanteMs(anchor, agoraMs))
  /\ ult' = Ult("calcularTempoRestante", "x1", 0, OK)
  /\ UNCHANGED <<adminVars, montagemVars, timerVars, canalVars, feedVars, cicloVars, agora,
                 storeVars, rodadaAtual, timeoutVars, pizzasAvaliacao, telaVars>>

CalcularAvaliador(anchor, d) ==
  /\ anchor \in Ancoras /\ d \in Desvios
  /\ LET agoraMs == anchor + TEMPO_ADICIONAL_SEGUNDOS * 1000 + d IN
       calc' = Calculo("usePizzasParaAvaliacao", anchor, TEMPO_ADICIONAL_SEGUNDOS, agoraMs,
                       calcularTempoRestanteAvaliacaoMs(anchor, agoraMs))
  /\ ult' = Ult("calcularTempoRestante", "v1", 0, OK)
  /\ UNCHANGED <<adminVars, montagemVars, timerVars, canalVars, feedVars, cicloVars, agora,
                 storeVars, rodadaAtual, timeoutVars, pizzasAvaliacao, telaVars>>

CalcularEquipe(anchor, limite, d) ==
  /\ anchor \in Ancoras /\ limite \in LimitesEmSegundos /\ d \in Desvios
  /\ LET agoraMs == anchor + limite * 1000 + d IN
       calc' = Calculo("EquipeScreen", anchor, limite, agoraMs,
                       updateTimer(anchor, limite * 1000, agoraMs).tempoRestante)
  /\ ult' = Ult("updateTimer", "t1", 0, OK)
  /\ UNCHANGED <<adminVars, montagemVars, timerVars, canalVars, feedVars, cicloVars, agora,
                 storeVars, rodadaAtual, timeoutVars, pizzasAvaliacao, telaVars>>

\* --------------------------------------------------------------- initial
ItemInicial(r, avaliada) ==
  [rodada_id |-> r, equipe_id |-> EquipeDaTela, sabor_id |-> "mussarela",
   status |-> IF avaliada THEN "avaliada" ELSE "pronta",
   resultado |-> IF avaliada THEN "aprovada" ELSE NULO,
   justificativa_reprovacao |-> NULO,
   avaliado_por |-> IF avaliada THEN AVALIADOR ELSE NULO]

ItensIniciais == {ItemInicial(r, b) : r \in Rodadas, b \in BOOLEAN}

\* an earlier round, finished, and the current round just started
RodadasIniciais(tempoLimite) ==
  [r \in Rodadas |->
     IF r = RodadaAnterior
     THEN [id |-> r, status |-> "finalizada", tempo_limite |-> TempoLimitePadrao,
           iniciou_em |-> 0, finalizou_em |-> 0]
     ELSE [id |-> r, status |-> "ativa", tempo_limite |-> tempoLimite,
           iniciou_em |-> 0, finalizou_em |-> SEM_DATA]]

InitBase ==
  /\ agora = 0
  /\ rodadaAtual = [c \in Clientes |-> NuloRodada]
  /\ tempoAdicionalProcessadoRef = [c \in Timeouts |-> {}]
  /\ invocacoes = [c \in Timeouts |-> [r \in Rodadas |-> 0]]
  /\ estaNoTempoAdicional = [c \in Timeouts |-> FALSE]
  /\ intervalRef = [c \in Temporizados |-> NuloRodada]
  /\ armados = [c \in Temporizados |-> {}]
  /\ desmontado = {}
  /\ tempoRestante = [c \in Temporizados |-> SEM_TEMPO]
  /\ erro = [v \in Avaliadores |-> NULO]
  /\ calc = SemCalculo
  /\ timer = [c \in Consumidores |-> TimerInicial]
  /\ notificadas = [c \in Consumidores |-> <<>>]
  /\ chamadas = {}
  /\ pizzasAvaliacao = [v \in Avaliadores |-> <<>>]
  /\ pizzasEquipe = [t \in Telas |-> {}]
  /\ saborSelecionado = [t \in Telas |-> ""]
  /\ envio = [t \in Telas |-> SemEnvio]
  /\ eventos = {}
  /\ somaMinutos = 0
  /\ historico = [r \in Rodadas |-> <<>>]
  /\ pausouEm = [r \in Rodadas |-> SEM_DATA]
  /\ inicio = [a \in Admins |-> SemInicio]
  /\ finalizadores = [r \in Rodadas |-> {}]
  /\ leituras = {}
  /\ respostas = {}
  /\ entregues = [v \in Avaliadores |-> {}]
  /\ ultimaLida = [v \in Avaliadores |-> NadaLido]
  /\ equipeId = ""
  /\ channelRef = SemCanal
  /\ isSubscribedRef = FALSE
  /\ canais = [n \in Canais |-> "nenhum"]
  /\ fechando = {}
  /\ ult = Ult("init", "init", 0, OK)

InitComItens ==
  /\ InitBase
  /\ rodadas = RodadasIniciais(TempoLimitePadrao)
  /\ \E n \in 0..MaxIniciais : pizzas \in [1..n -> ItensIniciais]
  /\ criadaCom = [i \in 1..Len(pizzas) |-> "ativa"]
  /\ nAuto = [i \in 1..Len(pizzas) |-> 0]

NextReprovacao ==
  \/ Avancar
  \/ \E a \in Admins : FinalizarRodada(a)
  \/ \E c \in Timeouts : SincronizarTimeout(c)
  \/ \E c \in Timeouts : TiqueTimeout(c)
  \/ \E k \in chamadas : ReprovarSelect(k)
  \/ \E k \in chamadas : ReprovarBulkUpdate(k)

SpecReprovacao == InitComItens /\ [][NextReprovacao]_vars

TimeoutsAvaliacao == {"x1"}

NextAvaliacao ==
  \/ Avancar
  \/ \E a \in Admins : FinalizarRodada(a)
  \/ \E c \in TimeoutsAvaliacao : SincronizarTimeout(c)
  \/ \E c \in TimeoutsAvaliacao : TiqueTimeout(c)
  \/ \E k \in chamadas : ReprovarSelect(k)
  \/ \E k \in chamadas : ReprovarBulkUpdate(k)
  \/ \E v \in Avaliadores : fetchPizzasParaAvaliacao(v)
  \/ \E v \in Avaliadores : Avaliar(v)

SpecAvaliacao == InitComItens /\ [][NextAvaliacao]_vars

InitEnvio ==
  /\ InitBase
  /\ rodadas = RodadasIniciais(TempoLimiteCurto)
  /\ pizzas = <<>>
  /\ criadaCom = <<>>
  /\ nAuto = <<>>

InitTempo ==
  /\ InitBase
  /\ rodadas = RodadasIniciais(TempoLimitePadrao)
  /\ pizzas = <<>>
  /\ criadaCom = <<>>
  /\ nAuto = <<>>

NextEnvio ==
  \/ Avancar
  \/ \E a \in Admins : FinalizarRodada(a)
  \/ \E t \in Telas : SincronizarTela(t)
  \/ \E t \in Telas : FetchPizzasEquipe(t)
  \/ \E t \in Telas : SelecionarSabor(t)
  \/ \E t \in Telas : handleEnviarPizza(t)
  \/ \E t \in Telas : marcarPizzaPronta(t)

SpecEnvio == InitEnvio /\ [][NextEnvio]_vars

\* one team screen submits while the round runs; the store accepts or refuses
\* each insert
NextEnvioFalha ==
  \/ Avancar
  \/ FinalizarRodada("a1")
  \/ SincronizarTela("t1")
  \/ FetchPizzasEquipe("t1")
  \/ SelecionarSabor("t1")
  \/ handleEnviarPizza("t1")
  \/ marcarPizzaPronta("t1")
  \/ marcarPizzaProntaFalha("t1")

SpecEnvioFalha == InitEnvio /\ [][NextEnvioFalha]_vars

NextTempo ==
  \/ Avancar
  \/ \E a \in Admins : SincronizarAdmin(a)
  \/ \E a \in Admins, minutos \in Deltas : adicionarMinutos(a, minutos)

SpecTempo == InitTempo /\ [][NextTempo]_vars

\* two control screens, one of which ends the round while the other extends it
NextTempoFim ==
  \/ \E a \in Admins : SincronizarAdmin(a)
  \/ \E a \in Admins : FinalizarRodada(a)
  \/ \E a \in Admins, minutos \in Deltas : adicionarMinutos(a, minutos)

SpecTempoFim == InitTempo /\ [][NextTempoFim]_vars

\* a round created and not started, with no sequence yet
RodadasAguardando ==
  [RodadasIniciais(TempoLimiteCurto) EXCEPT ![2].status = "aguardando",
                                            ![2].iniciou_em = SEM_DATA]

\* items the teams sent in the current round wait for the evaluator
InitFeed ==
  /\ InitBase
  /\ rodadas = RodadasIniciais(TempoLimitePadrao)
  /\ \E n \in 0..MaxPendentes : pizzas = [i \in 1..n |-> ItemInicial(2, FALSE)]
  /\ criadaCom = [i \in 1..Len(pizzas) |-> "ativa"]
  /\ nAuto = [i \in 1..Len(pizzas) |-> 0]

NextFeed ==
  \/ \E v \in Avaliadores : IniciarFetch(v)
  \/ \E x \in respostas : ConcluirFetch(x)
  \/ \E v \in Avaliadores : \E payload \in Emitidas : Entregar(v, payload)
  \/ \E l \in leituras : ConcluirLeitura(l)
  \/ \E v \in Avaliadores : Avaliar(v)

SpecFeed == InitFeed /\ [][NextFeed]_vars

\* the evaluator's list follows full fetches and the notifications of rows
\* inserted, evaluated and deleted in the store
NextDuplicatas ==
  \/ \E v \in Avaliadores : IniciarFetch(v)
  \/ \E x \in respostas : ConcluirFetch(x)
  \/ \E v \in Avaliadores : \E payload \in Emitidas : Entregar(v, payload)
  \/ \E l \in leituras : ConcluirLeitura(l)
  \/ \E i \in Ids : RemoverDoBanco(i)

\* as many items as MaxNaFila are in the store, each waiting or evaluated
InitDuplicatas ==
  /\ InitBase
  /\ rodadas = RodadasIniciais(TempoLimitePadrao)
  /\ \E n \in 0..MaxNaFila :
       pizzas \in [1..n -> {ItemInicial(2, FALSE), ItemInicial(2, TRUE)}]
  /\ criadaCom = [i \in 1..Len(pizzas) |-> "ativa"]
  /\ nAuto = [i \in 1..Len(pizzas) |-> 0]

SpecDuplicatas == InitDuplicatas /\ [][NextDuplicatas]_vars

\* the evaluator fetches its list and judges its entries; the store answers a
\* fetch or an evaluation with an error at any moment
NextJulgamento ==
  \/ \E v \in Avaliadores : IniciarFetch(v)
  \/ \E x \in respostas : ConcluirFetch(x)
  \/ \E x \in respostas : FalharFetch(x)
  \/ \E v \in Avaliadores : Avaliar(v)
  \/ \E v \in Avaliadores : AvaliarComFalha(v)

SpecJulgamento == InitFeed /\ [][NextJulgamento]_vars

\* the evaluator's hook is mounted and its argument changes
NextCanal ==
  \/ \E e \in Equipes : Montar(e)
  \/ \E e \in Equipes : MudarEquipe(e)
  \/ \E n \in Canais, status \in {"SUBSCRIBED", "CHANNEL_ERROR", "CLOSED"} : ReceberStatus(n, status)

SpecCanal == InitTempo /\ [][NextCanal]_vars

\* no round has been created yet, or one was and its sequence was not
InitCriacao ==
  /\ InitBase
  /\ rodadas \in {[r \in Rodadas |-> NuloRodada],
                  [RodadasAguardando EXCEPT ![1] = NuloRodada]}
  /\ pizzas = <<>>
  /\ criadaCom = <<>>
  /\ nAuto = <<>>

\* rounds are created, given their sequence, started and ended
NextCriacao ==
  \/ \E a \in Admins : SincronizarAdmin(a)
  \/ \E a \in Admins : handleIniciarRodada(a)
  \/ \E a \in Admins : ContinuarSequencia(a)
  \/ \E a \in Admins : ContinuarIniciar(a)
  \/ \E a \in Admins : Encerrar(a)

SpecCriacao == InitCriacao /\ [][NextCriacao]_vars

\* an earlier round, finished, and a round created, not yet started
InitRodada ==
  /\ InitBase
  /\ rodadas = RodadasAguardando
  /\ pizzas = <<>>
  /\ criadaCom = <<>>
  /\ nAuto = <<>>

\* the clock up to the instant the round's time runs out
AvancarNaRodada ==
  /\ agora < TempoLimiteCurto
  /\ Avancar

\* the round is started, paused, resumed and ended by two control screens
NextRodada ==
  \/ AvancarNaRodada
  \/ \E a \in Admins : SincronizarAdmin(a)
  \/ \E a \in Admins : handleIniciarRodada(a)
  \/ \E a \in Admins : ContinuarSequencia(a)
  \/ \E a \in Admins : ContinuarIniciar(a)
  \/ \E a \in Admins : Encerrar(a)
  \/ \E a \in Admins : OnTimeUp(a)
  \/ \E a \in Admins : handlePausarRodada(a)
  \/ \E a \in Admins : handleRetomarRodada(a)

SpecRodada == InitRodada /\ [][NextRodada]_vars

\* the evaluator's screen mounts, its channel connects, drops and reconnects and
\* delivers changes, and the screen unmounts
NextDesmonte ==
  \/ \E v \in Avaliadores : MontarAvaliador(v)
  \/ \E n \in Canais, status \in {"SUBSCRIBED", "CHANNEL_ERROR", "CLOSED"} : ReceberStatus(n, status)
  \/ \E n \in Canais : ReceberFechamento(n)
  \/ \E v \in Avaliadores : \E payload \in Emitidas : EntregarNoCanal(v, payload)
  \/ \E l \in leituras : ConcluirLeitura(l)
  \/ \E x \in respostas : ConcluirFetch(x)
  \/ \E v \in Avaliadores : DesmontarAvaliador(v)

SpecDesmonte == InitFeed /\ [][NextDesmonte]_vars

\* the evaluator's screen mounts and follows the window events while its
\* channel connects, drops and reconnects; it evaluates, and unmounts
NextAssinatura ==
  \/ \E v \in Avaliadores : MontarAvaliador(v)
  \/ \E n \in Canais, status \in {"SUBSCRIBED", "CHANNEL_ERROR", "CLOSED"} : ReceberStatus(n, status)
  \/ \E n \in Canais : ReceberFechamento(n)
  \/ \E x \in respostas : ConcluirFetch(x)
  \/ \E x \in respostas : FalharFetch(x)
  \/ \E v \in Avaliadores, ev \in EventosGlobais : EventoGlobal(v, ev)
  \/ \E v \in Avaliadores : Avaliar(v)
  \/ \E v \in Avaliadores : DesmontarAvaliador(v)

\* as many items as MaxNaFila wait for the evaluator when its screen mounts
InitAssinatura ==
  /\ InitBase
  /\ rodadas = RodadasIniciais(TempoLimitePadrao)
  /\ \E n \in 0..MaxNaFila : pizzas = [i \in 1..n |-> ItemInicial(2, FALSE)]
  /\ criadaCom = [i \in 1..Len(pizzas) |-> "ativa"]
  /\ nAuto = [i \in 1..Len(pizzas) |-> 0]

SpecAssinatura == InitAssinatura /\ [][NextAssinatura]_vars

\* the control screen extends the round by a minute, once
EstenderUmaVez(a) ==
  /\ somaMinutos = 0
  /\ adicionarMinutos(a, 1)

\* the screens that own a timer
Relogios == {"x1", "v1", "t1"}

\* an earlier round, finished, and a round created, not yet started; one of the
\* screens that own a timer is open (the evaluator's with its channel joined),
\* the others have been closed
InitIntervalos ==
  /\ agora = 0
  /\ rodadaAtual = [c \in Clientes |-> NuloRodada]
  /\ tempoAdicionalProcessadoRef = [c \in Timeouts |-> {}]
  /\ invocacoes = [c \in Timeouts |-> [r \in Rodadas |-> 0]]
  /\ estaNoTempoAdicional = [c \in Timeouts |-> FALSE]
  /\ intervalRef = [c \in Temporizados |-> NuloRodada]
  /\ armados = [c \in Temporizados |-> {}]
  /\ \E c \in Relogios : desmontado = Temporizados \ {c}
  /\ tempoRestante = [c \in Temporizados |-> SEM_TEMPO]
  /\ erro = [v \in Avaliadores |-> NULO]
  /\ calc = SemCalculo
  /\ timer = [c \in Consumidores |-> TimerInicial]
  /\ notificadas = [c \in Consumidores |-> <<>>]
  /\ chamadas = {}
  /\ pizzasAvaliacao = [v \in Avaliadores |-> <<>>]
  /\ pizzasEquipe = [t \in Telas |-> {}]
  /\ saborSelecionado = [t \in Telas |-> ""]
  /\ envio = [t \in Telas |-> SemEnvio]
  /\ eventos = {}
  /\ somaMinutos = 0
  /\ historico = [r \in Rodadas |-> <<>>]
  /\ pausouEm = [r \in Rodadas |-> SEM_DATA]
  /\ inicio = [a \in Admins |-> SemInicio]
  /\ finalizadores = [r \in Rodadas |-> {}]
  /\ leituras = {}
  /\ respostas = {}
  /\ entregues = [v \in Avaliadores |-> {}]
  /\ ultimaLida = [v \in Avaliadores |-> NadaLido]
  /\ equipeId = ""
  /\ fechando = {}
  /\ ult = Ult("init", "init", 0, OK)
  /\ channelRef = IF "v1" \in desmontado THEN SemCanal ELSE 1
  /\ isSubscribedRef = ("v1" \notin desmontado)
  /\ canais = [n \in Canais |->
                 IF n = 1 /\ "v1" \notin desmontado THEN "subscribed" ELSE "nenhum"]
  /\ rodadas = RodadasAguardando
  /\ pizzas = <<>>
  /\ criadaCom = <<>>
  /\ nAuto = <<>>

\* one control screen runs the round while a timeout client, the evaluator's
\* screen and a team screen follow it, tick and unmount
NextIntervalos ==
  \/ Avancar
  \/ SincronizarAdmin("a1")
  \/ handleIniciarRodada("a1")
  \/ ContinuarSequencia("a1")
  \/ ContinuarIniciar("a1")
  \/ Encerrar("a1")
  \/ handlePausarRodada("a1")
  \/ handleRetomarRodada("a1")
  \/ EstenderUmaVez("a1")
  \/ SincronizarTimeout("x1")
  \/ TiqueTimeout("x1")
  \/ \E k \in chamadas : ReprovarSelect(k)
  \/ DesmontarTimeout("x1")
  \/ SincronizarAvaliador("v1")
  \/ TiqueAvaliador("v1")
  \/ DesmontarAvaliador("v1")
  \/ SincronizarEquipe("t1")
  \/ TiqueEquipe("t1")
  \/ DesmontarEquipe("t1")

SpecIntervalos == InitIntervalos /\ [][NextIntervalos]_vars

\* a control screen and a team screen follow the round with their timers while
\* the control screen starts, pauses, resumes and ends it
NextTimer ==
  \/ Avancar
  \/ \E c \in {"a1", "t1"} : SincronizarTimer(c)
  \/ \E c \in {"a1", "t1"} : TiqueTimer(c)
  \/ \E c \in {"a1", "t1"} : DesmontarTimer(c)
  \/ handleIniciarRodada("a1")
  \/ ContinuarSequencia("a1")
  \/ ContinuarIniciar("a1")
  \/ Encerrar("a1")
  \/ handlePausarRodada("a1")
  \/ handleRetomarRodada("a1")

SpecTimer == InitRodada /\ [][NextTimer]_vars

\* the three remaining-time computations are called at instants around the end
NextRelogio ==
  \/ \E anchor \in Ancoras, d \in Desvios : CalcularTimeout(anchor, d)
  \/ \E anchor \in Ancoras, d \in Desvios : CalcularAvaliador(anchor, d)
  \/ \E anchor \in Ancoras, limite \in LimitesEmSegundos, d \in Desvios :
       CalcularEquipe(anchor, limite, d)

SpecRelogio == InitTempo /\ [][NextRelogio]_vars

\* a mounted timeout client follows the round to its end and past the grace
\* window; the store may answer its requests with an error, MaxFalhas times
NextFalha ==
  \/ Avancar
  \/ FinalizarRodada("a1")
  \/ SincronizarTimeout("x1")
  \/ TiqueTimeout("x1")
  \/ \E k \in chamadas : ReprovarSelect(k)
  \/ \E k \in chamadas : ReprovarBulkUpdate(k)
  \/ \E k \in chamadas : ReprovarSelectErro(k)
  \/ \E k \in chamadas : ReprovarUpdateErro(k)

\* the clock runs, the client is re-rendered and its interval ticks, and the
\* store answers every request
SpecFalha ==
  /\ InitFeed
  /\ [][NextFalha]_vars
  /\ WF_vars(Avancar)
  /\ WF_vars(SincronizarTimeout("x1"))
  /\ WF_vars(TiqueTimeout("x1"))
  /\ WF_vars(\E k \in chamadas : ReprovarSelect(k))
  /\ WF_vars(\E k \in chamadas : ReprovarBulkUpdate(k))

\* a team screen submits items, the evaluator judges them from its list, the
\* round ends and a timeout client rejects what is left
NextFunil ==
  \/ Avancar
  \/ FinalizarRodada("a1")
  \/ SincronizarTela("t1")
  \/ SelecionarSabor("t1")
  \/ handleEnviarPizza("t1")
  \/ marcarPizzaPronta("t1")
  \/ fetchPizzasParaAvaliacao("v1")
  \/ Avaliar("v1")
  \/ SincronizarTimeout("x1")
  \/ TiqueTimeout("x1")
  \/ \E k \in chamadas : ReprovarSelect(k)
  \/ \E k \in chamadas : ReprovarBulkUpdate(k)

SpecFunil == InitEnvio /\ [][NextFunil]_vars

\* the same, and the team screen's list of its items is refetched at any moment
NextQuota ==
  \/ NextFunil
  \/ FetchPizzasEquipe("t1")

SpecQuota == InitEnvio /\ [][NextQuota]_vars

\* one mounted timeout client is rendered with any sequence of round values
\* while the clock runs, its interval ticks and the store answers its requests
NextProcessada ==
  \/ Avancar
  \/ \E v \in ValoresDeRodada : ServirRodada("x1", v)
  \/ TiqueTimeout("x1")
  \/ \E k \in chamadas : ReprovarSelect(k)
  \/ \E k \in chamadas : ReprovarBulkUpdate(k)
  \/ DesmontarTimeout("x1")

SpecProcessada == InitFeed /\ [][NextProcessada]_vars

\* ================================================================= claims
ChamadasFim(r) == {k \in chamadas : k.rodadaId = r /\ k.fase = "fim"}

\* C1: with 1..3 clients running reprovarPizzasNaoAvaliadas for a finished
\* round in any interleaving, an item is matched by at most one bulk update,
\* every item marked by the system was matched exactly once, once one update
\* has run no item of the round is left ready-and-unevaluated, and at most one
\* invocation of a round changes any item.
C1_ReprovacaoExatamenteUmaVez ==
  /\ \A i \in Ids : nAuto[i] <= 1
  /\ \A i \in Ids :
       nAuto[i] = 1 <=> (/\ pizzas[i].avaliado_por = "Sistema - Timeout"
                         /\ pizzas[i].status = "avaliada"
                         /\ pizzas[i].resultado = "reprovada")
  /\ \A r \in Rodadas :
       /\ (\E k \in ChamadasFim(r) : k.pendentes > 0) =>
             \A i \in Ids : pizzas[i].rodada_id = r => pizzas[i].status = "avaliada"
       /\ \A k1, k2 \in ChamadasFim(r) :
             (k1.alteradas > 0 /\ k2.alteradas > 0) => k1 = k2
       /\ \A k \in ChamadasFim(r) :
             k.alteradas \in {0, Cardinality({i \in Ids : pizzas[i].rodada_id = r /\ nAuto[i] = 1})}

C1_Witness ==
  \E k1, k2, k3 \in ChamadasFim(2) :
    /\ k1.alteradas = 2
    /\ k2.pendentes = 2 /\ k2.alteradas = 0
    /\ k3.pendentes = 0 /\ k3 # k1
    /\ Cardinality({k1.c, k2.c, k3.c}) = 3

\* C2: once an item's result is set, no step changes it.
C2_ResultadoImutavel ==
  [][\A i \in Ids : pizzas[i].resultado # NULO =>
        pizzas'[i].resultado = pizzas[i].resultado]_vars

\* C3: avaliarPizza on an item whose result is already set fails with
\* AlreadyEvaluatedError and leaves the item unchanged.
C3_JaAvaliadaFalha ==
  [][(ult'.op = "avaliarPizza" /\ pizzas[ult'.alvo].resultado # NULO) =>
        (ult'.res = "AlreadyEvaluatedError" /\ pizzas'[ult'.alvo] = pizzas[ult'.alvo])]_vars

\* C7: a client issues the auto-rejection of a round only when its view of
\* that round is finished with finalizou_em set and its clock has reached
\* finalizou_em + 60 seconds.
C7_ReprovacaoSoAposJanela ==
  [][\A k \in chamadas' \ chamadas :
        k.fase = "select" =>
          LET v == rodadaAtual'[k.c] IN
            /\ v.id = k.rodadaId
            /\ v.status = "finalizada"
            /\ v.finalizou_em # SEM_DATA
            /\ agora >= v.finalizou_em + 60]_vars

C7_Witness ==
  /\ ult.op = "tiqueTimeout"
  /\ \E k \in chamadas : k.c = ult.c /\ k.fase = "select" /\ k.rodadaId = 2

\* C8: one bulk update of round R changes exactly the items of R that are
\* 'pronta' with resultado null at that instant, to avaliada / reprovada with
\* the fixed reason and the system marker; every other item is unchanged.
C8_EfeitoDaReprovacao ==
  [][ult'.op = "reprovarUpdate" =>
       \E k \in chamadas :
         /\ k.fase = "update" /\ k.c = ult'.c
         /\ Len(pizzas') = Len(pizzas)
         /\ \A i \in Ids :
              pizzas'[i] =
                IF /\ pizzas[i].rodada_id = k.rodadaId
                   /\ pizzas[i].status = "pronta"
                   /\ pizzas[i].resultado = NULO
                THEN [pizzas[i] EXCEPT
                        !.status = "avaliada",
                        !.resultado = "reprovada",
                        !.justificativa_reprovacao =
                           "Tempo de avaliacao esgotado - reprovacao automatica",
                        !.avaliado_por = "Sistema - Timeout"]
                ELSE pizzas[i]]_vars

C8_Witness ==
  /\ ult.op = "reprovarUpdate"
  /\ \E i, j, m \in Ids :
       /\ pizzas[i].rodada_id = 2 /\ pizzas[i].avaliado_por = "Sistema - Timeout"
       /\ pizzas[j].rodada_id = 2 /\ pizzas[j].avaliado_por = "Avaliador"
       /\ criadaCom[j] = "ativa" /\ pizzas[j].resultado = "reprovada"
       /\ pizzas[m].rodada_id = 1 /\ pizzas[m].status = "pronta"

C5_EnvioBloqueado ==
  [][\A t \in Telas :
       (/\ ult'.op = "handleEnviarPizza" /\ ult'.c = t
        /\ \/ rodadaAtual[t] = NuloRodada
           \/ rodadaAtual[t].status # "ativa"
           \/ ~isActive(t)
           \/ timeRemaining(t) <= 0)
       => /\ pizzas' = pizzas
          /\ envio'[t] = SemEnvio
          /\ eventos' = eventos
          /\ saborSelecionado'[t] = saborSelecionado[t]]_vars

C5_Witness ==
  /\ ult.op = "handleEnviarPizza" /\ ult.res = "tempo esgotado"
  /\ rodadaAtual[ult.c].status = "ativa"
  /\ timeRemaining(ult.c) = 0
  /\ saborSelecionado[ult.c] # ""
  /\ ~verificarLimitePizzas(ult.c)

C9_PisoNoTempoDecorrido ==
  [][(ult'.op = "adicionarMinutos" /\ ult'.alvo < 0) =>
       LET r == rodadaAtual[ult'.c].id IN
         rodadas'[r].tempo_limite >= agora - rodadas[r].iniciou_em]_vars

\* C10: the stored tempo_limite equals the initial value plus 60 seconds per
\* minute of every extend applied so far.
C10_SomaDasExtensoes ==
  rodadas[2].tempo_limite = TempoLimitePadrao + 60 * somaMinutos

\* C11: a round's tempo_limite in the store changes only in a step taken
\* while the round's status in the store is 'ativa'.
C11_TempoSoMudaEmAtiva ==
  [][\A r \in Rodadas :
       rodadas'[r].tempo_limite # rodadas[r].tempo_limite => rodadas[r].status = "ativa"]_vars

\* C12: every round in the store has tempo_limite > 0.
C12_TempoLimitePositivo ==
  \A r \in Rodadas : rodadas[r].status # "nenhuma" => rodadas[r].tempo_limite > 0

Crescente(lista) == \A k \in 1..(Len(lista) - 1) : lista[k] < lista[k + 1]

\* C18: the evaluator's list is ordered oldest-first by created_at in every
\* state.
C18_ListaMaisAntigaPrimeiro ==
  \A v \in Avaliadores : Crescente(pizzasAvaliacao[v])

\* every fetch answer was applied, every callback ran to its end, every
\* payload sent was received and the latest fetch read the store as it is
Quieto(v) ==
  /\ respostas = {}
  /\ leituras = {}
  /\ Emitidas \subseteq entregues[v]
  /\ ultimaLida[v] = ParaAvaliacao(pizzas)

\* C19: once the store has stopped changing and every fetch and every
\* notification handler has completed, the evaluator's list holds exactly
\* the store's items with status 'pronta' and resultado null.
C19_ListaIgualAoBanco ==
  \A v \in Avaliadores :
    Quieto(v) =>
      /\ {pizzasAvaliacao[v][k] : k \in 1..Len(pizzasAvaliacao[v])} = PendentesDe(pizzas, 2)
      /\ Len(pizzasAvaliacao[v]) = Cardinality(PendentesDe(pizzas, 2))

\* C20: a mounted usePizzasParaAvaliacao(equipeId) has at most one channel
\* that is subscribing or subscribed.
C20_UmCanalPorVez ==
  Cardinality(Vivos(canais)) <= 1

\* C21: once an evaluator hook instance has unmounted, no channel it created
\* is left unremoved and no change handler of it is called
C21_DesmontagemRemoveCanais ==
  \A v \in Avaliadores :
    v \in desmontado =>
      /\ \A n \in Canais : canais[n] \in {"nenhum", "removido"}
      /\ ~(ult.op = "postgres_changes" /\ ult.c = v)

\* C22: every timer-owning instance has at most one interval armed, whatever
\* round updates it has seen, and once it has unmounted none is armed and no
\* tick of it runs
C22_UmIntervaloPorInstancia ==
  \A c \in Temporizados :
    /\ Cardinality(armados[c]) <= 1
    /\ c \in desmontado =>
         /\ armados[c] = {}
         /\ ~(ult.op \in {"tiqueTimeout", "tiqueAvaliador", "tiqueEquipe"} /\ ult.c = c)

\* the team screen was handed the extended round and its effect re-armed
C22_Witness ==
  /\ ult = Ult("sincronizarEquipe", "t1", 0, OK)
  /\ \E iv \in armados["t1"] : iv.tempo_limite > TempoLimiteCurto
  /\ tempoRestante["t1"] > 0

SemRepeticao(seq) == \A i, j \in 1..Len(seq) : seq[i] = seq[j] => i = j

SegundosQueCobrem(ms) ==
  CHOOSE n \in 0..(TempoLimitePadrao + TEMPO_ADICIONAL_SEGUNDOS) :
    /\ n * 1000 >= ms
    /\ n = 0 \/ (n - 1) * 1000 < ms

\* C24: each of the three remaining-time computations returns
\* max(0, ceil((anchor + limit*1000 - now)/1000)): never negative, and 0 exactly
\* when now >= anchor + limit*1000
C24_TempoRestanteConformeReferencia ==
  calc.por # "" =>
    LET fim == calc.anchor + calc.limite * 1000 IN
      /\ calc.valor = SegundosQueCobrem(fim - calc.agoraMs)
      /\ calc.valor >= 0
      /\ (calc.valor = 0) <=> (calc.agoraMs >= fim)

\* a millisecond before the end the team screen still shows one second
C24_Witness ==
  /\ calc.por = "EquipeScreen"
  /\ calc.agoraMs = calc.anchor + calc.limite * 1000 - 1
  /\ calc.valor = 1

\* the round has ended, its grace window is over and items of it still wait
Vencida(r) ==
  /\ rodadas[r].status = "finalizada"
  /\ agora >= rodadas[r].finalizou_em + TEMPO_ADICIONAL_SEGUNDOS
  /\ PendentesDe(pizzas, r) # {}

\* C25: items left ready in a finished round past the grace window are
\* eventually evaluated, also when an attempt of the rejector failed
C25_PendentesAcabamAvaliadas ==
  Vencida(2) ~> (PendentesDe(pizzas, 2) = {})

\* C26: an item whose result is set has status 'avaliada'
C26_ResultadoSoEmAvaliada ==
  \A i \in Ids : pizzas[i].resultado # NULO => pizzas[i].status = "avaliada"

\* of the items the team submitted one was judged by the evaluator and one was
\* rejected by the timeout
C26_Witness ==
  /\ \E i \in Ids : pizzas[i].avaliado_por = AVALIADOR /\ pizzas[i].resultado # NULO
  /\ \E j \in Ids : pizzas[j].avaliado_por = SISTEMA_TIMEOUT /\ pizzas[j].resultado = "reprovada"

\* C27: a rejection reason is stored only on items whose result is 'reprovada';
\* an approval leaves the reason null, whatever was stored before
C27_JustificativaSoEmReprovada ==
  \A i \in Ids :
    pizzas[i].justificativa_reprovacao # NULO => pizzas[i].resultado = "reprovada"

\* the evaluator approved, from a list fetched earlier, an item the timeout had
\* rejected with its reason
C27_Witness ==
  /\ ult.op = "avaliarPizza"
  /\ nAuto[ult.alvo] > 0
  /\ pizzas[ult.alvo].resultado = "aprovada"
  /\ pizzas[ult.alvo].justificativa_reprovacao = NULO

\* C28: every item whose result is 'reprovada' has a stored reason
C28_ReprovadaTemJustificativa ==
  \A i \in Ids :
    pizzas[i].resultado = "reprovada" =>
      pizzas[i].justificativa_reprovacao \notin {NULO, INDEFINIDO, ""}

\* C29: a subscription failure is not fatal for the evaluator's list: the
\* CLOSED or CHANNEL_ERROR status leaves the hook's error field as it was, a
\* 'global-data-changed' event for table pizzas or a 'pizza-avaliada' event
\* still starts a fetch of the store's ready and unevaluated items whether or
\* not the channel is joined, and the answer of a fetch replaces the cached list
C29_FalhaDeCanalNaoFatal ==
  [][/\ (ult'.op = "subscribe" /\ ult'.res \in {"CLOSED", "CHANNEL_ERROR"}) => erro' = erro
     /\ (ult'.op = "eventoGlobal" /\ ult'.res \in {"pizzas", "pizza-avaliada"}) =>
          [v |-> ult'.c, data |-> ParaAvaliacao(pizzas)] \in respostas'
     /\ ult'.op = "concluirFetch" =>
          \E x \in respostas \ respostas' :
            x.v = ult'.c /\ pizzasAvaliacao'[x.v] = x.data]_vars

\* the channel has reported CLOSED, no error is set, the cached list is stale
\* and a window event has just started the fetch that will replace it
C29_Witness ==
  /\ ult.op = "eventoGlobal" /\ ult.res = "pizzas"
  /\ channelRef # SemCanal /\ canais[channelRef] = "fechado" /\ ~isSubscribedRef
  /\ erro[ult.c] = NULO
  /\ pizzasAvaliacao[ult.c] # ParaAvaliacao(pizzas)
  /\ [v |-> ult.c, data |-> ParaAvaliacao(pizzas)] \in respostas

\* C30: for an active round the entries on display as current, next and
\* after-next are those at cursor, cursor+1 and cursor+2 of the sequence in
\* ordinal order, the cursor advancing with the time elapsed; a position past
\* the last ordinal shows as undefined
C30_SaboresNoCursor ==
  \A r \in Rodadas :
    (rodadas[r].status = "ativa" /\ historico[r] # <<>>) =>
      VisualizadorSaboresRodada(historico[r]) =
        NoCursor(historico[r], Cursor(rodadas[r], Len(historico[r]), agora))

\* items of the screen's team the store holds for the round the screen shows,
\* whatever their status
CriadasNaRodada(t) ==
  Cardinality({i \in Ids : /\ pizzas[i].equipe_id = EquipeDaTela
                           /\ pizzas[i].rodada_id = rodadaAtual[t].id})

\* C31: the quota check counts every item the team created in the round,
\* evaluated ones included: a refetched list reaches the limit exactly when the
\* items created do, and no step, evaluation and auto-rejection included, turns
\* a reached limit back into an open one while the screen shows the same round
C31_QuotaContaAvaliadas ==
  [][\A t \in Telas :
       /\ (ult'.op = "fetchPizzasEquipe" /\ ult'.c = t) =>
            (verificarLimitePizzas(t)' <=> CriadasNaRodada(t)' >= LimitePizzasRodada)
       /\ (verificarLimitePizzas(t) /\ rodadaAtual'[t].id = rodadaAtual[t].id) =>
            verificarLimitePizzas(t)']_vars

\* the team's list was refetched after all its items of the round had been
\* evaluated, one by the evaluator and one by the timeout, and the limit is
\* still reached
C31_Witness ==
  /\ ult.op = "fetchPizzasEquipe"
  /\ verificarLimitePizzas(ult.c)
  /\ \A i \in pizzasEquipe[ult.c] : pizzas[i].status = "avaliada"
  /\ \E i \in pizzasEquipe[ult.c] : pizzas[i].avaliado_por = AVALIADOR
  /\ \E i \in pizzasEquipe[ult.c] : pizzas[i].avaliado_por = SISTEMA_TIMEOUT

\* C32: a mounted useAvaliacaoTimeout instance invokes
\* reprovarPizzasNaoAvaliadas at most once per round id, over any sequence of
\* ticks and of re-runs of its effect
C32_UmaInvocacaoPorRodada ==
  \A c \in Timeouts : \A r \in Rodadas : invocacoes[c][r] <= 1

\* the instance has invoked it for both rounds, and has just been rendered
\* again with a round it had processed, finished at another instant
C32_Witness ==
  /\ \A r \in Rodadas : invocacoes["x1"][r] = 1
  /\ ult.op = "servirRodada" /\ ult.c = "x1"
  /\ rodadaAtual["x1"].status = "finalizada"
  /\ rodadaAtual["x1"].finalizou_em = Passo
  /\ agora >= Passo + TEMPO_ADICIONAL_SEGUNDOS

\* C33: when the select or the bulk update of reprovarPizzasNaoAvaliadas is
\* answered with an error the invocation ends there: no row changes and no
\* toast or event follows; when the select finds no pending item the
\* invocation ends without an update, a toast or an event
C33_FalhaSilenciosa ==
  [][\A k \in chamadas \ chamadas' :
       /\ (ult'.op \in {"reprovarSelect", "reprovarUpdate"} /\ ult'.res = "erro") =>
            /\ eventos' = eventos
            /\ pizzas' = pizzas
            /\ Chamada(k.c, k.rodadaId, "erro", k.pendentes, 0) \in chamadas'
       /\ (k.fase = "select" /\ ult'.res = OK /\ PendentesDe(pizzas, k.rodadaId) = {}) =>
            /\ eventos' = eventos
            /\ pizzas' = pizzas
            /\ Chamada(k.c, k.rodadaId, "fim", 0, 0) \in chamadas']_vars

\* the bulk update of an invocation that had found pending items was answered
\* with an error: the items still wait and nothing was announced
C33_Witness ==
  /\ ult.op = "reprovarUpdate" /\ ult.res = "erro"
  /\ \E k \in chamadas : k.c = ult.c /\ k.fase = "erro" /\ k.pendentes > 0
  /\ PendentesDe(pizzas, 2) # {}
  /\ eventos = {}

\* C34: the evaluator's cached list never holds two entries with the same
\* item id, after any sequence of full fetches and of INSERT, UPDATE and DELETE
\* notifications, duplicated ones and handlers resuming late included
C34_ListaSemDuplicatas ==
  \A v \in Avaliadores :
    \A j, k \in 1..Len(pizzasAvaliacao[v]) :
      pizzasAvaliacao[v][j] = pizzasAvaliacao[v][k] => j = k

\* a full fetch had read the item and the handler of its INSERT notification
\* has resumed from its read: the list holds the item once
C34_Witness ==
  /\ ult.op = "pizzaCompleta"
  /\ Contem(ultimaLida[ult.c], ult.alvo)
  /\ pizzasAvaliacao[ult.c] = <<ult.alvo>>
  /\ \E m \in entregues[ult.c] : m.tipo = "INSERT" /\ m.id = ult.alvo

\* the quantities announced by the invocations in S, added up
RECURSIVE SomaAnunciada(_)
SomaAnunciada(S) ==
  IF S = {} THEN 0
  ELSE LET k == CHOOSE x \in S : TRUE IN k.pendentes + SomaAnunciada(S \ {k})

\* C35: the quantity an auto-rejection announces equals the number of items
\* its own bulk update moved to rejected, whatever other clients' rejections
\* and manual evaluations came between its select and its update; added up over
\* the clients, the announced quantities equal the number of auto-rejected items
C35_QuantidadeAnunciada ==
  /\ \A k \in chamadas : k.fase = "fim" => k.pendentes = k.alteradas
  /\ (\A k \in chamadas : k.fase = "fim") =>
       SomaAnunciada(chamadas) =
         Cardinality({i \in Ids : pizzas[i].avaliado_por = SISTEMA_TIMEOUT})

\* C36: when the store update of avaliarPizza fails the error is raised again
\* to the caller, the hook's error field is set, the item stays in the cached
\* list and neither event is dispatched; when it succeeds the item is out of
\* the list by the time the two events are dispatched
C36_FalhaDaAvaliacao ==
  [][/\ ult'.op = "avaliarPizzaFalha" =>
          /\ ult'.res = "throw"
          /\ erro'[ult'.c] # NULO
          /\ pizzasAvaliacao'[ult'.c] = pizzasAvaliacao[ult'.c]
          /\ Contem(pizzasAvaliacao'[ult'.c], ult'.alvo)
          /\ eventos' = eventos
          /\ pizzas' = pizzas
     /\ ult'.op = "avaliarPizza" =>
          /\ ult'.res = OK
          /\ ~Contem(pizzasAvaliacao'[ult'.c], ult'.alvo)
          /\ \A tipo \in {"pizza-avaliada", "global-data-changed"} :
               [tipo |-> tipo, c |-> ult'.c, rodadaId |-> pizzas[ult'.alvo].rodada_id] \in eventos'
          /\ erro' = erro]_vars

\* the first evaluation of the session was refused by the store: the item is
\* still listed and still waits, the error is set and no event has been made
C36_Witness ==
  /\ ult.op = "avaliarPizzaFalha"
  /\ erro[ult.c] = "Erro ao avaliar pizza"
  /\ Contem(pizzasAvaliacao[ult.c], ult.alvo)
  /\ pizzas[ult.alvo].status = "pronta"
  /\ eventos = {}

\* C37: once the effect of useAvaliacaoTimeout has run for the round it was
\* given, estaNoTempoAdicional is true only if that round is finished, not yet
\* processed by the instance, its remaining grace time is above 0 and its
\* interval is armed; and when the round is finished and estaNoTempoAdicional is
\* false, tempoRestante is 0; a finished round without finalizou_em included
C37_EstadoDoTempoAdicional ==
  \A c \in Timeouts \ desmontado :
    /\ estaNoTempoAdicional[c] =>
         /\ rodadaAtual[c].status = "finalizada"
         /\ ~JaProcessada(c, rodadaAtual[c].id)
         /\ tempoRestante[c] > 0
         /\ intervalRef[c] # NuloRodada
         /\ intervalRef[c] \in armados[c]
    /\ (rodadaAtual[c].status = "finalizada" /\ ~estaNoTempoAdicional[c]) =>
         tempoRestante[c] = 0

\* C38: every 'pizza-sabor-selecionado' event dispatched by handleEnviarPizza
\* belongs to an item created in the store: once no submission of the screen is
\* in flight, the store holds an item of the team in the round of each such
\* event, so none was dispatched for a submission whose insert failed
C38_EventoSoDeItemCriado ==
  \A e \in eventos :
    (e.tipo = "pizza-sabor-selecionado" /\ envio[e.c] = SemEnvio) =>
      \E i \in Ids : /\ pizzas[i].rodada_id = e.rodadaId
                     /\ pizzas[i].equipe_id = EquipeDaTela

====
